---- MODULE Spec2Model ----
(***************************************************************************)
(* DiceGraph: the statistics core (statistics_utils.py, dice_manager.py,   *)
(* simulation.py), the roll-log files (file_utils.py) and the roller tab   *)
(* (dice_roller.py) as state machines.                                     *)
(*                                                                         *)
(* Encoding of Python values                                               *)
(*   - a value that may be None is a sequence: <<>> is None, <<v>> is v;   *)
(*   - nan, as a probability, is the integer NaN;                          *)
(*   - a probability (p-value, alpha) is an integer number of thousandths; *)
(*   - any other float is an exact fraction <<n, d>> in lowest terms;      *)
(*   - a dict / Counter is a function whose domain is its key set;         *)
(*   - an f-string is the tuple of its literal and interpolated parts.     *)
(***************************************************************************)
EXTENDS Integers, Sequences, FiniteSets, TLC

VARIABLES
    \* ---- one call into the statistics core ----
    c_args,      \* the function called and its arguments
    c_op,        \* "idle" before the call, "returned" after it
    c_ret,       \* [raised, value]: the exception raised or the value returned
    c_calls,     \* the core routines the call invoked, in order
    \* ---- the roller tab (DiceRollerTab + DiceManager + the roll-log files) ----
    dm,                  \* DiceManager: current_dice_set, current_num_dice, current_dice_faces, current_roll
    files,               \* path -> None (no file) or <<lines>>
    recorded_under,      \* path -> for each line of the file, the configuration it was logged under
    last_fairness_stats, \* DiceRollerTab.last_fairness_stats
    dialog,              \* the last message box shown by a roller handler ("" when none)
    last_op,             \* the roller handler that ran last
    clicks,              \* number of roll clicks so far (bounded by MaxClicks)
    \* ---- the saved preferences (usersettings.dicegraphprefs) ----
    prefs_alpha,         \* preferences['statistical_alpha'], in thousandths
    \* ---- MultiDiceTracker (TrackerN.py); its files live in `files` too ----
    tracker_num_dice,     \* what the number-of-dice field holds: <<n>>, or None when it is no integer
    tracker_roll_file,    \* self.roll_file: the n of dice_rolls_<n>.dicegraph
    tracker_rolls,        \* self.rolls
    tracker_current_roll, \* self.current_roll
    \* ---- the simulator tab (DiceSimulatorTab); its files live in `files` too ----
    sim_faces,               \* what the faces field holds
    sim_last_simulation,     \* DiceSimulatorTab.last_simulation: None or <<rolls>>
    sim_last_fairness_stats, \* DiceSimulatorTab.last_fairness_stats: None or <<report>>
    sim_last_faces,          \* the face count last_simulation was run or loaded with (history variable)
    sim_runs                 \* number of simulations run so far (bounded by MaxSimRuns)

core_vars == <<c_args, c_op, c_ret, c_calls>>
roller_vars == <<dm, files, recorded_under, last_fairness_stats, dialog, last_op, clicks>>
prefs_vars == <<prefs_alpha>>
\* What neither the statistics core nor the roller tab writes.
tracker_vars == <<tracker_num_dice, tracker_roll_file, tracker_rolls, tracker_current_roll>>
sim_vars == <<sim_faces, sim_last_simulation, sim_last_fairness_stats, sim_last_faces, sim_runs>>
app_vars == <<prefs_vars, tracker_vars, sim_vars>>
vars == <<c_args, c_op, c_ret, c_calls,
          dm, files, recorded_under, last_fairness_stats, dialog, last_op, clicks,
          prefs_alpha,
          tracker_num_dice, tracker_roll_file, tracker_rolls, tracker_current_roll,
          sim_faces, sim_last_simulation, sim_last_fairness_stats, sim_last_faces, sim_runs>>

-----------------------------------------------------------------------------
(* Bounds of the model *)

MaxVal == 2        \* roll values handed to the core are 1..MaxVal
MaxBase == 3       \* length of the pattern a core roll sequence repeats
MaxRep == 5        \* how many times the pattern is repeated
MaxDice == 2       \* arity of the nested rolls handed to the core
MaxFaces == 3      \* face counts handed to the core are 0..MaxFaces
MaxCount == 6      \* entries of the count vectors handed to the core are 0..MaxCount
MaxSimRolls == 2   \* simulate_rolls is asked for 0..MaxSimRolls rolls
MaxClicks == 4     \* roll clicks in one run of the roller tab
MaxSimRuns == 2    \* simulations run in one run of the simulator tab

-----------------------------------------------------------------------------
(* Python values *)

None == <<>>
Some(x) == <<x>>

RECURSIVE Gcd(_, _)
Gcd(a, b) == IF b = 0 THEN a ELSE Gcd(b, a % b)

\* The fraction n/d (d > 0) in lowest terms.
Rat(n, d) == LET g == Gcd(IF n < 0 THEN -n ELSE n, d)
             IN  <<n \div g, d \div g>>

RatAdd(x, y) == Rat(x[1] * y[2] + y[1] * x[2], x[2] * y[2])

\* x <= c/1000 for a fraction x.
RatLeqMilli(x, c) == x[1] * 1000 <= c * x[2]

\* What a Python float division that raises ZeroDivisionError leaves behind.
ZeroDivisionError == <<0, 0>>

\* a / b on Python numbers.
PyDiv(a, b) == IF b = 0 THEN ZeroDivisionError ELSE Rat(a, b)

\* sum(s)
RECURSIVE SumSeq(_)
SumSeq(s) == IF s = <<>> THEN 0 ELSE Head(s) + SumSeq(Tail(s))

\* [val for roll in rolls for val in roll]
RECURSIVE Flatten(_)
Flatten(rolls) == IF rolls = <<>> THEN <<>> ELSE Head(rolls) \o Flatten(Tail(rolls))

\* The items of s at the positions I, in order.
RECURSIVE Select(_, _)
Select(s, I) ==
    IF s = <<>> THEN <<>>
    ELSE Select(SubSeq(s, 1, Len(s) - 1), I)
         \o (IF Len(s) \in I THEN <<s[Len(s)]>> ELSE <<>>)

\* collections.Counter(s): counts the elements of s one by one.
RECURSIVE CounterAcc(_, _)
CounterAcc(s, c) ==
    IF s = <<>> THEN c
    ELSE LET v == Head(s)
         IN  CounterAcc(Tail(s),
                        IF v \in DOMAIN c THEN [c EXCEPT ![v] = @ + 1]
                                          ELSE c @@ (v :> 1))

\* Mutant: an element equal to the one before it is not counted again.
Counter_run_starts(s) ==
    CounterAcc(Select(s, {i \in DOMAIN s : i = 1 \/ s[i] # s[i - 1]}), <<>>)

Counter(s) == CounterAcc(s, <<>>)

\* counts.get(k, d)
DictGet(c, k, d) == IF k \in DOMAIN c THEN c[k] ELSE d

-----------------------------------------------------------------------------
(* statistics_utils.py *)

\* Rule of thumb of check_sample_size_validity: expected count per category.
min_expected == 5

\* A float that is not a number (as a probability in thousandths).
NaN == -1

\* numpy's results of x/0: inf for x # 0, nan for 0/0 (no exception is raised).
StatInf == <<1, 0>>
StatNaN == <<0, 0>>

\* Mutant: the observed count is not centred on the expected one (o^2 / e).
ChiTerm_uncentred(o, e) ==
    IF e[1] = 0 THEN (IF o = 0 THEN StatNaN ELSE StatInf)
    ELSE Rat((o * e[2]) * (o * e[2]), e[2] * e[1])

\* Mutant: the deviation is not squared ((o - e) / e).
ChiTerm_unsquared(o, e) ==
    IF e[1] = 0 THEN (IF o = 0 THEN StatNaN ELSE StatInf)
    ELSE Rat(o * e[2] - e[1], e[1])

\* One term (o - e)^2 / e of the statistic, e = <<en, ed>> a fraction >= 0.
ChiTerm(o, e) ==
    IF e[1] = 0 THEN (IF o = 0 THEN StatNaN ELSE StatInf)
    ELSE Rat((o * e[2] - e[1]) * (o * e[2] - e[1]), e[2] * e[1])

\* numpy's sum of the terms: nan absorbs everything, then inf.
RECURSIVE ChiSum(_)
ChiSum(terms) ==
    IF terms = <<>> THEN <<0, 1>>
    ELSE LET t == Head(terms)
             r == ChiSum(Tail(terms))
         IN  IF t = StatNaN \/ r = StatNaN THEN StatNaN
             ELSE IF t = StatInf \/ r = StatInf THEN StatInf
             ELSE RatAdd(t, r)

\* Upper critical values of the chi-square distribution, in thousandths, for
\* the tail probabilities Chi2Levels (in thousandths), by degrees of freedom.
Chi2Levels == <<900, 500, 100, 50, 10, 1>>
Chi2Crit(df) ==
    CASE df = 1 -> <<16, 455, 2706, 3841, 6635, 10828>>
      [] df = 2 -> <<211, 1386, 4605, 5991, 9210, 13816>>
      [] df = 3 -> <<584, 2366, 6251, 7815, 11345, 16266>>
      [] df = 4 -> <<1064, 3357, 7779, 9488, 13277, 18467>>
      [] df = 5 -> <<1610, 4351, 9236, 11070, 15086, 20515>>

\* scipy's chi2.sf(stat, df), the upper-tail probability, in thousandths and
\* rounded down to the grid {1000 (stat = 0), 900, 500, 100, 50, 10, 1, 0}:
\* exact at stat = 0, and exact in every comparison with a level of the grid.
\* (Floating-point rounding of the statistic is not modelled.)
chi2_sf(stat, df) ==
    IF stat = StatNaN THEN NaN
    ELSE IF df <= 0 THEN (IF stat = <<0, 1>> THEN NaN ELSE 0)
    ELSE IF stat = StatInf THEN 0
    ELSE IF stat[1] = 0 THEN 1000
    ELSE LET crit == Chi2Crit(df)
             ok == {i \in 1..Len(Chi2Levels) : RatLeqMilli(stat, crit[i])}
         IN  IF ok = {} THEN 0
             ELSE Chi2Levels[CHOOSE i \in ok : \A j \in ok : i <= j]

\* Mutant: the degrees of freedom are taken one too low (F - 2).
stats_chisquare_df_low(observed, expected) ==
    IF Len(observed) # Len(expected) THEN [raised |-> "ValueError", value |-> None]
    ELSE LET sum_exp == ChiSum(expected)
         IN  IF sum_exp # <<SumSeq(observed), 1>>
             THEN [raised |-> "ValueError", value |-> None]
             ELSE LET stat == ChiSum([i \in DOMAIN observed |-> ChiTerm(observed[i], expected[i])])
                  IN  [raised |-> "", value |-> <<stat, chi2_sf(stat, Len(observed) - 2)>>]

\* scipy.stats.chisquare(observed, expected): raises ValueError when the two
\* do not have the same length or the same sum; otherwise (statistic, p-value).
stats_chisquare(observed, expected) ==
    IF Len(observed) # Len(expected) THEN [raised |-> "ValueError", value |-> None]
    ELSE LET sum_exp == ChiSum(expected)
         IN  IF sum_exp # <<SumSeq(observed), 1>>
             THEN [raised |-> "ValueError", value |-> None]
             ELSE LET stat == ChiSum([i \in DOMAIN observed |-> ChiTerm(observed[i], expected[i])])
                  IN  [raised |-> "", value |-> <<stat, chi2_sf(stat, Len(observed) - 1)>>]

\* Mutant: the total == 0 guard is missing.
chi_square_test_run_unguarded(observed, expected_probs) ==
    LET total == SumSeq(observed)
        num_categories == Len(observed)
        probs == IF expected_probs = None
                 THEN [i \in 1..num_categories |-> <<1, num_categories>>]
                 ELSE expected_probs[1]
        expected == [i \in DOMAIN probs |-> Rat(total * probs[i][1], probs[i][2])]
        r == stats_chisquare(observed, expected)
    IN  IF r.raised = ""
        THEN [value |-> r.value, calls |-> <<"stats.chisquare">>]
        ELSE [value |-> <<(<<0, 1>>), 1000>>, calls |-> <<"stats.chisquare", "except">>]

\* chi_square_test(observed, expected_probs) with the record of what it
\* reaches: the call of stats.chisquare, and the except branch.
\* expected_probs is None or Some(sequence of fractions).
chi_square_test_run(observed, expected_probs) ==
    LET total == SumSeq(observed)
    IN  IF total = 0 THEN [value |-> <<(<<0, 1>>), 1000>>, calls |-> <<>>]
        ELSE LET num_categories == Len(observed)
                 probs == IF expected_probs = None
                          THEN [i \in 1..num_categories |-> <<1, num_categories>>]
                          ELSE expected_probs[1]
                 expected == [i \in DOMAIN probs |-> Rat(total * probs[i][1], probs[i][2])]
                 r == stats_chisquare(observed, expected)
             IN  IF r.raised = ""
                 THEN [value |-> r.value, calls |-> <<"stats.chisquare">>]
                 ELSE [value |-> <<(<<0, 1>>), 1000>>,
                       calls |-> <<"stats.chisquare", "except">>]

\* chi_square_test(observed, expected_probs) -> <<test statistic, p-value>>.
chi_square_test(observed, expected_probs) ==
    chi_square_test_run(observed, expected_probs).value

\* p_value >= alpha on floats: False when p_value is nan.
FloatGeq(p, a) == p # NaN /\ p >= a

\* Mutant: ties reject (is_fair = p_value > alpha).
interpret_chi_square_result_strict(p_value, alpha) ==
    LET fair == p_value # NaN /\ p_value > alpha
    IN  [p_value |-> Some(p_value),
         alpha |-> alpha,
         is_fair |-> Some(fair),
         conclusion |-> IF fair
                        THEN <<"The dice appear to be fair (p>=alpha)", p_value, alpha>>
                        ELSE <<"The dice may not be fair (p<alpha)", p_value, alpha>>,
         confidence_level |-> Rat((1000 - alpha) * 100, 1000),
         significance |-> IF fair
                          THEN <<"No significant deviation from fairness", 1000 - alpha>>
                          ELSE <<"Statistically significant deviation from fairness", 1000 - alpha>>]

interpret_chi_square_result(p_value, alpha) ==
    LET fair == FloatGeq(p_value, alpha)
    IN  [p_value |-> Some(p_value),
         alpha |-> alpha,
         is_fair |-> Some(FloatGeq(p_value, alpha)),
         conclusion |-> IF fair
                        THEN <<"The dice appear to be fair (p>=alpha)", p_value, alpha>>
                        ELSE <<"The dice may not be fair (p<alpha)", p_value, alpha>>,
         confidence_level |-> Rat((1000 - alpha) * 100, 1000),
         significance |-> IF fair
                          THEN <<"No significant deviation from fairness", 1000 - alpha>>
                          ELSE <<"Statistically significant deviation from fairness", 1000 - alpha>>]

\* Mutant: the boundary total = min_total is reported invalid.
check_sample_size_validity_strict(observed, num_categories) ==
    LET total == SumSeq(observed)
        min_total == min_expected * num_categories
    IN  [valid |-> total > min_total,
         total |-> total,
         min_required |-> min_total,
         message |-> IF total <= min_total
                     THEN <<"Not enough data for reliable fairness test. Need at least",
                            min_total, "rolls (currently have", total, ")">>
                     ELSE <<>>]

check_sample_size_validity(observed, num_categories) ==
    LET total == SumSeq(observed)
        min_total == min_expected * num_categories
    IN  [valid |-> total >= min_total,
         total |-> total,
         min_required |-> min_total,
         message |-> IF total < min_total
                     THEN <<"Not enough data for reliable fairness test. Need at least",
                            min_total, "rolls (currently have", total, ")">>
                     ELSE <<>>]

\* The list of rolls handed to get_dice_fairness is [ints, lists]: ints holds
\* it when its items are single values, lists when its items are lists
\* (isinstance(rolls[0], list)); the other field is empty.
IntRolls(s) == [ints |-> s, lists |-> <<>>]
ListRolls(s) == [ints |-> <<>>, lists |-> s]

\* Mutant: the sample-size gate is skipped, the test always runs.
gated_fairness_test_ungated(sample_validity, observed, alpha) ==
    LET chi == chi_square_test(observed, None)
    IN  [fairness |-> interpret_chi_square_result(chi[2], alpha)
                          @@ [chi2_stat |-> Some(chi[1])],
         calls |-> <<"chi_square_test", "interpret_chi_square_result">>]

\* Mutant: with insufficient data the verdict defaults to fair.
gated_fairness_test_fair_default(sample_validity, observed, alpha) ==
    IF sample_validity.valid
    THEN LET chi == chi_square_test(observed, None)
         IN  [fairness |-> interpret_chi_square_result(chi[2], alpha)
                               @@ [chi2_stat |-> Some(chi[1])],
              calls |-> <<"chi_square_test", "interpret_chi_square_result">>]
    ELSE [fairness |-> [p_value |-> None,
                        alpha |-> alpha,
                        is_fair |-> Some(TRUE),
                        conclusion |-> sample_validity.message,
                        significance |-> <<"Insufficient data for statistical inference">>,
                        chi2_stat |-> None],
          calls |-> <<>>]

\* The gated test of get_dice_fairness: the chi-square routine runs only on a
\* valid sample. Returns the fairness_test dict and the routines invoked.
gated_fairness_test(sample_validity, observed, alpha) ==
    IF sample_validity.valid
    THEN LET chi == chi_square_test(observed, None)
         IN  [fairness |-> interpret_chi_square_result(chi[2], alpha)
                               @@ [chi2_stat |-> Some(chi[1])],
              calls |-> <<"chi_square_test", "interpret_chi_square_result">>]
    ELSE [fairness |-> [p_value |-> None,
                        alpha |-> alpha,
                        is_fair |-> None,
                        conclusion |-> sample_validity.message,
                        significance |-> <<"Insufficient data for statistical inference">>,
                        chi2_stat |-> None],
          calls |-> <<>>]

\* Mutant: the total_rolls > 0 guard is missing.
face_percentages_of_unguarded(counts, total_rolls, num_faces) ==
    [i \in 1..num_faces |-> PyDiv(DictGet(counts, i, 0) * 100, total_rolls)]

\* The face_percentages dict of get_dice_fairness.
face_percentages_of(counts, total_rolls, num_faces) ==
    [i \in 1..num_faces |->
        IF total_rolls > 0 THEN PyDiv(DictGet(counts, i, 0) * 100, total_rolls)
        ELSE <<0, 1>>]

\* get_dice_fairness with the record of the routines it invokes.
get_dice_fairness_run(rolls, num_faces, alpha) ==
    LET flat_rolls == IF rolls.lists # <<>>
                      THEN Flatten(rolls.lists) ELSE rolls.ints
        counts == Counter(flat_rolls)
        observed == [i \in 1..num_faces |-> DictGet(counts, i, 0)]
        sample_validity == check_sample_size_validity(observed, num_faces)
        test == gated_fairness_test(sample_validity, observed, alpha)
        total_rolls == Len(flat_rolls)
    IN  [result |-> [fairness_test |-> test.fairness,
                     total_rolls |-> total_rolls,
                     face_counts |-> counts,
                     face_percentages |-> face_percentages_of(counts, total_rolls, num_faces),
                     sample_validity |-> sample_validity],
         calls |-> <<"check_sample_size_validity">> \o test.calls]

get_dice_fairness(rolls, num_faces, alpha) ==
    get_dice_fairness_run(rolls, num_faces, alpha).result

-----------------------------------------------------------------------------
(* dice_manager.py: aggregation *)

\* calculate_statistics(rolls) -> <<counts, total, percentages>>
calculate_statistics(rolls) ==
    LET counts == Counter(rolls)
        total == Len(rolls)
        percentages == [face \in DOMAIN counts |->
                           IF total > 0 THEN PyDiv(counts[face] * 100, total)
                           ELSE <<0, 1>>]
    IN  <<counts, total, percentages>>

\* Mutant: a roll counts once (its first value) instead of once per die.
calculate_multi_statistics_per_roll(rolls, dice_faces) ==
    LET all_values == [i \in DOMAIN rolls |-> rolls[i][1]]
        counts == Counter(all_values)
        total == Len(all_values)
        percentages == [face \in 1..dice_faces |->
                           IF total > 0 THEN PyDiv(DictGet(counts, face, 0) * 100, total)
                           ELSE <<0, 1>>]
        position_stats ==
            IF rolls # <<>> /\ \A i \in DOMAIN rolls : Len(rolls[i]) = Len(rolls[1])
            THEN [pos \in 0..(Len(rolls[1]) - 1) |->
                     Counter([i \in DOMAIN rolls |-> rolls[i][pos + 1]])]
            ELSE <<>>
    IN  <<counts, total, percentages, position_stats>>

\* Mutant: a history of mixed arity is coerced to the arity of its first
\* roll, each position counting the rolls long enough to have it.
calculate_multi_statistics_coercing(rolls, dice_faces) ==
    LET all_values == Flatten(rolls)
        counts == Counter(all_values)
        total == Len(all_values)
        percentages == [face \in 1..dice_faces |->
                           IF total > 0 THEN PyDiv(DictGet(counts, face, 0) * 100, total)
                           ELSE <<0, 1>>]
        position_stats ==
            IF rolls # <<>>
            THEN [pos \in 0..(Len(rolls[1]) - 1) |->
                     LET have == Select(rolls, {i \in DOMAIN rolls : Len(rolls[i]) > pos})
                     IN  Counter([i \in DOMAIN have |-> have[i][pos + 1]])]
            ELSE <<>>
    IN  <<counts, total, percentages, position_stats>>

\* calculate_multi_statistics(rolls, dice_faces)
\*   -> <<counts, total, percentages, position_stats>>
calculate_multi_statistics(rolls, dice_faces) ==
    LET all_values == Flatten(rolls)
        counts == Counter(all_values)
        total == Len(all_values)
        percentages == [face \in 1..dice_faces |->
                           IF total > 0 THEN PyDiv(DictGet(counts, face, 0) * 100, total)
                           ELSE <<0, 1>>]
        position_stats ==
            IF rolls # <<>> /\ \A i \in DOMAIN rolls : Len(rolls[i]) = Len(rolls[1])
            THEN [pos \in 0..(Len(rolls[1]) - 1) |->
                     Counter([i \in DOMAIN rolls |-> rolls[i][pos + 1]])]
            ELSE <<>>
    IN  <<counts, total, percentages, position_stats>>

-----------------------------------------------------------------------------
(* simulation.py *)

\* Mutant: the values are zero-based (random.randint(0, faces - 1)).
simulate_rolls_outcomes_zero_based(num_rolls, num_dice, faces) ==
    [1..num_rolls -> [1..num_dice -> 0..(faces - 1)]]

\* Mutant: the loop stops one roll early.
simulate_rolls_outcomes_short(num_rolls, num_dice, faces) ==
    [1..(num_rolls - 1) -> [1..num_dice -> 1..faces]]

\* The results simulate_rolls(num_rolls, num_dice, faces) can return, one per
\* outcome of the random source: random.randint(1, faces) is any of 1..faces.
simulate_rolls_outcomes(num_rolls, num_dice, faces) ==
    [1..num_rolls -> [1..num_dice -> 1..faces]]

\* random.randint(1, faces) raises ValueError on the empty range 1..faces; it is
\* reached when at least one roll of at least one die is asked for.
simulate_rolls_raises(num_rolls, num_dice, faces) ==
    num_rolls >= 1 /\ num_dice >= 1 /\ faces < 1

\* DiceManager.roll_die / roll_dice / simulate_rolls: the values, rolls and
\* lists of rolls they can return.
roll_die_outcomes(faces) == 1..faces
roll_dice_outcomes(num_dice, faces) == [1..num_dice -> roll_die_outcomes(faces)]
manager_simulate_rolls_outcomes(num_rolls, num_dice, faces) ==
    [1..num_rolls -> roll_dice_outcomes(num_dice, faces)]

\* The fairness statistics create_simulation_figure returns for simulated rolls.
simulation_fairness_stats(rolls, faces, alpha) ==
    get_dice_fairness(IntRolls(Flatten(rolls)), faces, alpha)

\* min(sums) / max(sums) of a non-empty list.
MinOf(sums) == CHOOSE m \in {sums[i] : i \in DOMAIN sums} : \A i \in DOMAIN sums : m <= sums[i]
MaxOf(sums) == CHOOSE m \in {sums[i] : i \in DOMAIN sums} : \A i \in DOMAIN sums : m >= sums[i]

\* Mutant: the range starts at the smallest possible sum, the number of dice.
sum_distribution_from_num_dice(rolls) ==
    LET sums == [i \in DOMAIN rolls |-> SumSeq(rolls[i])]
        sum_counts == Counter(sums)
    IN  [sm \in Len(rolls[1])..MaxOf(sums) |-> DictGet(sum_counts, sm, 0)]

\* The sum distribution plotted for a non-empty multi-die history: sum_range
\* mapped to sum_values.
sum_distribution(rolls) ==
    LET sums == [i \in DOMAIN rolls |-> SumSeq(rolls[i])]
        min_sum == MinOf(sums)
        max_sum == MaxOf(sums)
        sum_counts == Counter(sums)
    IN  [sm \in min_sum..max_sum |-> DictGet(sum_counts, sm, 0)]

-----------------------------------------------------------------------------
(* file_utils.py: the roll-log files.                                      *)
(* A name is a sequence of characters. A line of a file is a sequence of    *)
(* tokens [k, n]: k = "digits" (a run of decimal digits denoting n),        *)
(* "dash", "space", "comma" or "text" (a run of any other characters).     *)
(* The file system maps each existing path to the lines of its file.       *)

SINGLE_DICE_DIR == "SingleDiceResults"
MULTIPLE_DICE_DIR == "MultipleDiceResults"
SIMULATION_DIR == "SimulationResults"

\* The characters of the model's alphabet for which c.isalnum() holds.
AlnumChars == {"A", "B"}

Tok(k, n) == [k |-> k, n |-> n]
Digits(n) == Tok("digits", n)
Dash == Tok("dash", 0)
Space == Tok("space", 0)
Comma == Tok("comma", 0)

\* [x for x in s if keep(x)]
Filter(s, keep(_)) == Select(s, {i \in DOMAIN s : keep(s[i])})

\* str.strip(): s without its leading and trailing blanks.
RECURSIVE Strip(_, _)
Strip(s, blank) ==
    IF s = <<>> THEN <<>>
    ELSE IF Head(s) = blank THEN Strip(Tail(s), blank)
    ELSE IF s[Len(s)] = blank THEN Strip(SubSeq(s, 1, Len(s) - 1), blank)
    ELSE s

\* str.split(sep): the parts of s between the separators.
RECURSIVE Split(_, _)
Split(s, sep) ==
    IF \A i \in DOMAIN s : s[i] # sep THEN <<s>>
    ELSE LET i == CHOOSE i \in DOMAIN s : s[i] = sep /\ \A j \in 1..(i - 1) : s[j] # sep
         IN  <<SubSeq(s, 1, i - 1)>> \o Split(SubSeq(s, i + 1, Len(s)), sep)

\* get_file_path(dice_name, num_dice): <<directory, safe_name>>.
get_file_path(dice_name, num_dice) ==
    LET keep(c) == c \in AlnumChars \/ c \in {" ", "_", "-"}
        stripped == Strip(Filter(dice_name, keep), " ")
        safe_name == [i \in DOMAIN stripped |-> IF stripped[i] = " " THEN "_" ELSE stripped[i]]
    IN  <<IF num_dice = 1 THEN SINGLE_DICE_DIR ELSE MULTIPLE_DICE_DIR, safe_name>>

\* str(value) for an integer.
Str(value) == IF value < 0 THEN <<Dash, Digits(-value)>> ELSE <<Digits(value)>>

\* datetime.now().isoformat(), e.g. 2024-01-31T10:00:00.5: the clock is not
\* modelled, every timestamp has this shape.
IsoTimestamp == <<Digits(2024), Dash, Digits(1), Dash, Digits(31), Tok("text", 0)>>

\* open(file_path, 'a') ... write(line): creates the file when it is absent.
AppendLine(fs, file_path, line) ==
    IF file_path \in DOMAIN fs
    THEN [fs EXCEPT ![file_path] = Append(@, line)]
    ELSE fs @@ (file_path :> <<line>>)

\* Mutant: the file is opened with 'w' and the old lines are lost.
log_single_roll_truncating(fs, file_path, value) ==
    LET line == IsoTimestamp \o <<Space, Dash, Space>> \o Str(value)
    IN  IF file_path \in DOMAIN fs
        THEN [fs EXCEPT ![file_path] = <<line>>]
        ELSE fs @@ (file_path :> <<line>>)

log_single_roll(fs, file_path, value) ==
    AppendLine(fs, file_path, IsoTimestamp \o <<Space, Dash, Space>> \o Str(value))

\* ','.join(parts)
RECURSIVE Join(_)
Join(parts) ==
    IF parts = <<>> THEN <<>>
    ELSE IF Len(parts) = 1 THEN parts[1]
    ELSE parts[1] \o <<Comma>> \o Join(Tail(parts))

log_multiple_rolls(fs, file_path, values) ==
    AppendLine(fs, file_path, Join([i \in DOMAIN values |-> Str(values[i])]))

\* s.isdigit(): non-empty and digits only.
IsDigit(s) == Len(s) = 1 /\ s[1].k = "digits"

\* Whether int(s) succeeds: blanks, an optional sign, digits, blanks.
IntParses(s) ==
    LET t == Strip(s, Space)
    IN  \/ IsDigit(t)
        \/ Len(t) = 2 /\ t[1] = Dash /\ t[2].k = "digits"

\* int(s), where it succeeds.
IntOf(s) ==
    LET t == Strip(s, Space)
    IN  IF Len(t) = 2 THEN -(t[2].n) ELSE t[1].n

Last(s) == s[Len(s)]

\* Mutant: the value is taken from the first field of the line instead of
\* the last.
read_single_rolls_first_field(fs, file_path) ==
    IF file_path \notin DOMAIN fs THEN <<>>
    ELSE LET good(line) == /\ Strip(line, Space) # <<>>
                           /\ IsDigit(Strip(Head(Split(Strip(line, Space), Dash)), Space))
             lines == Filter(fs[file_path], good)
         IN  [i \in DOMAIN lines |-> IntOf(Head(Split(Strip(lines[i], Space), Dash)))]

\* read_single_rolls(file_path): [] when the file does not exist.
read_single_rolls(fs, file_path) ==
    IF file_path \notin DOMAIN fs THEN <<>>
    ELSE LET good(line) == /\ Strip(line, Space) # <<>>
                           /\ IsDigit(Strip(Last(Split(Strip(line, Space), Dash)), Space))
             lines == Filter(fs[file_path], good)
         IN  [i \in DOMAIN lines |-> IntOf(Last(Split(Strip(lines[i], Space), Dash)))]

\* Whether read_multiple_rolls(file_path) raises ValueError (a part of a
\* non-blank line is no integer).
read_multiple_rolls_raises(fs, file_path) ==
    /\ file_path \in DOMAIN fs
    /\ \E i \in DOMAIN fs[file_path] :
          LET line == Strip(fs[file_path][i], Space)
          IN  line # <<>> /\ \E j \in DOMAIN Split(line, Comma) : ~IntParses(Split(line, Comma)[j])

\* read_multiple_rolls(file_path), where it does not raise.
read_multiple_rolls(fs, file_path) ==
    IF file_path \notin DOMAIN fs THEN <<>>
    ELSE LET nonblank(line) == Strip(line, Space) # <<>>
             lines == Filter(fs[file_path], nonblank)
         IN  [i \in DOMAIN lines |->
                 LET parts == Split(Strip(lines[i], Space), Comma)
                 IN  [j \in DOMAIN parts |-> IntOf(parts[j])]]

\* Mutant: os.remove is never reached and the file stays.
delete_file_keeps(fs, file_path) == fs

\* delete_file(file_path): removes the file if it exists.
delete_file(fs, file_path) == [q \in DOMAIN fs \ {file_path} |-> fs[q]]

\* The file system after log_single_roll(file_path, v) for each v of rolls, in order.
RECURSIVE LogSingleRolls(_, _, _)
LogSingleRolls(fs, file_path, rolls) ==
    IF rolls = <<>> THEN fs
    ELSE LogSingleRolls(log_single_roll(fs, file_path, Head(rolls)), file_path, Tail(rolls))

\* The file system after log_multiple_rolls(file_path, r) for each r of rolls, in order.
RECURSIVE LogMultipleRolls(_, _, _)
LogMultipleRolls(fs, file_path, rolls) ==
    IF rolls = <<>> THEN fs
    ELSE LogMultipleRolls(log_multiple_rolls(fs, file_path, Head(rolls)), file_path, Tail(rolls))

-----------------------------------------------------------------------------
(* dice_manager.py / dice_roller.py: the roller tab *)

\* Limits of apply_config.
max_num_dice == 20
max_button_faces == 20

\* DEFAULT_PREFERENCES["default_faces"]
default_faces == 6

\* DEFAULT_PREFERENCES["statistical_alpha"] = 0.05, in thousandths.
statistical_alpha == 50

\* DiceManager.set_current_dice
set_current_dice(dice_set, num_dice, faces) ==
    [current_dice_set |-> dice_set,
     current_num_dice |-> num_dice,
     current_dice_faces |-> faces,
     current_roll |-> <<>>]

\* DiceRollerTab.show_graph: the value it leaves in last_fairness_stats,
\* recomputed from the current set's file; alpha is the saved preference
\* statistical_alpha, read at that moment.
show_graph(d, fs, alpha) ==
    LET file_path == get_file_path(d.current_dice_set, d.current_num_dice)
    IN  IF d.current_num_dice = 1
        THEN LET rolls == read_single_rolls(fs, file_path)
             IN  IF rolls # <<>>
                 THEN Some(get_dice_fairness(IntRolls(rolls), d.current_dice_faces, alpha))
                 ELSE None
        ELSE LET rolls == read_multiple_rolls(fs, file_path)
             IN  IF rolls # <<>>
                 THEN Some(get_dice_fairness(IntRolls(Flatten(rolls)), d.current_dice_faces,
                                             alpha))
                 ELSE None

\* The configuration a roll is logged under (history variable).
CurrentConfig(d) == <<d.current_dice_set, d.current_num_dice, d.current_dice_faces>>

RecordUnder(ru, file_path, cfg) ==
    IF file_path \in DOMAIN ru THEN [ru EXCEPT ![file_path] = Append(@, cfg)]
    ELSE ru @@ (file_path :> <<cfg>>)

\* What the user can put in the configuration fields (number of dice, faces,
\* name) before pressing Apply: every valid combination, and one invalid
\* combination for each check of apply_config.
NameInputs == {<<"A">>}
NumDiceInputs == {1, 2, 3}
FacesInputs == {2, max_button_faces + 1}
ConfigInputs ==
    (NumDiceInputs \X FacesInputs \X NameInputs)
    \cup {<<1, 2, <<>>>>, <<1, 2, <<" ">>>>, <<0, 2, <<"A">>>>,
          <<max_num_dice + 1, 2, <<"A">>>>, <<1, 1, <<"A">>>>}
\* What the user can type in the value field (None: not a number).
EnteredInputs == {None} \cup {Some(v) : v \in {0, 1, max_button_faces + 1, max_button_faces + 2}}

\* Mutant: the manager is configured before the number of faces is checked.
ApplyConfig_sets_before_faces_check(num_dice, faces, raw_name) ==
    LET name == Strip(raw_name, " ")
    IN  /\ last_op' = "apply_config"
        /\ IF name = <<>>
           THEN /\ dialog' = "Please enter a dice set name"
                /\ UNCHANGED <<dm, files, recorded_under, last_fairness_stats>>
           ELSE IF num_dice < 1 \/ num_dice > max_num_dice
           THEN /\ dialog' = "Number of dice must be between 1 and 20"
                /\ UNCHANGED <<dm, files, recorded_under, last_fairness_stats>>
           ELSE IF faces < 2
           THEN /\ dm' = set_current_dice(name, num_dice, faces)
                /\ dialog' = "Number of faces must be at least 2"
                /\ UNCHANGED <<files, recorded_under, last_fairness_stats>>
           ELSE /\ dm' = set_current_dice(name, num_dice, faces)
                /\ last_fairness_stats' = show_graph(dm', files, prefs_alpha)
                /\ dialog' = ""
                /\ UNCHANGED <<files, recorded_under>>
        /\ UNCHANGED <<clicks, core_vars, app_vars>>

\* DiceRollerTab.apply_config
ApplyConfig(num_dice, faces, raw_name) ==
    LET name == Strip(raw_name, " ")
    IN  /\ last_op' = "apply_config"
        /\ IF name = <<>>
           THEN /\ dialog' = "Please enter a dice set name"
                /\ UNCHANGED <<dm, files, recorded_under, last_fairness_stats>>
           ELSE IF num_dice < 1 \/ num_dice > max_num_dice
           THEN /\ dialog' = "Number of dice must be between 1 and 20"
                /\ UNCHANGED <<dm, files, recorded_under, last_fairness_stats>>
           ELSE IF faces < 2
           THEN /\ dialog' = "Number of faces must be at least 2"
                /\ UNCHANGED <<dm, files, recorded_under, last_fairness_stats>>
           ELSE /\ dm' = set_current_dice(name, num_dice, faces)
                /\ last_fairness_stats' = show_graph(dm', files, prefs_alpha)
                /\ dialog' = ""
                /\ UNCHANGED <<files, recorded_under>>
        /\ UNCHANGED <<clicks, core_vars, app_vars>>

\* Mutant: a roll is complete only when it holds more values than dice.
RollEffect_one_more(value) ==
    LET num_dice == dm.current_num_dice
        file_path == get_file_path(dm.current_dice_set, num_dice)
        roll == Append(dm.current_roll, value)
    IN  IF num_dice = 1
        THEN /\ files' = log_single_roll(files, file_path, value)
             /\ recorded_under' = RecordUnder(recorded_under, file_path, CurrentConfig(dm))
             /\ last_fairness_stats' = show_graph(dm, files', prefs_alpha)
    /\ sim_last_simulation' = None
    /\ sim_last_faces' = None
             /\ UNCHANGED dm
        ELSE IF Len(roll) <= num_dice
        THEN /\ dm' = [dm EXCEPT !.current_roll = roll]
             /\ UNCHANGED <<files, recorded_under, last_fairness_stats>>
        ELSE /\ files' = log_multiple_rolls(files, file_path, roll)
             /\ recorded_under' = RecordUnder(recorded_under, file_path, CurrentConfig(dm))
             /\ dm' = [dm EXCEPT !.current_roll = <<>>]
             /\ last_fairness_stats' = show_graph(dm', files', prefs_alpha)

\* The effect of on_roll(value) on the manager, the files and the statistics.
RollEffect(value) ==
    LET num_dice == dm.current_num_dice
        file_path == get_file_path(dm.current_dice_set, num_dice)
        roll == Append(dm.current_roll, value)
    IN  IF num_dice = 1
        THEN /\ files' = log_single_roll(files, file_path, value)
             /\ recorded_under' = RecordUnder(recorded_under, file_path, CurrentConfig(dm))
             /\ last_fairness_stats' = show_graph(dm, files', prefs_alpha)
    /\ sim_last_simulation' = None
    /\ sim_last_faces' = None
             /\ UNCHANGED dm
        ELSE IF Len(roll) < num_dice
        THEN /\ dm' = [dm EXCEPT !.current_roll = roll]
             /\ UNCHANGED <<files, recorded_under, last_fairness_stats>>
        ELSE /\ files' = log_multiple_rolls(files, file_path, roll)
             /\ recorded_under' = RecordUnder(recorded_under, file_path, CurrentConfig(dm))
             /\ dm' = [dm EXCEPT !.current_roll = <<>>]
             /\ last_fairness_stats' = show_graph(dm', files', prefs_alpha)

\* DiceRollerTab.on_roll, from one of the face buttons 1..faces that
\* apply_config creates when faces <= 20.
OnRoll(value) ==
    /\ clicks < MaxClicks
    /\ dm.current_dice_faces <= max_button_faces
    /\ value \in 1..dm.current_dice_faces
    /\ RollEffect(value)
    /\ clicks' = clicks + 1
    /\ dialog' = ""
    /\ last_op' = "on_roll"
    /\ UNCHANGED <<core_vars, app_vars>>

\* DiceRollerTab.on_roll_custom, from the value field apply_config creates
\* when faces > 20.
OnRollCustom(entered) ==
    /\ clicks < MaxClicks
    /\ dm.current_dice_faces > max_button_faces
    /\ IF entered = None
       THEN /\ dialog' = "Please enter a valid number"
            /\ UNCHANGED <<dm, files, recorded_under, last_fairness_stats>>
       ELSE IF entered[1] < 1 \/ entered[1] > dm.current_dice_faces
       THEN /\ dialog' = "Value must be between 1 and faces"
            /\ UNCHANGED <<dm, files, recorded_under, last_fairness_stats>>
       ELSE /\ RollEffect(entered[1])
            /\ dialog' = ""
    /\ clicks' = clicks + 1
    /\ last_op' = "on_roll_custom"
    /\ UNCHANGED <<core_vars, app_vars>>

\* DiceRollerTab.reset_data; confirmed is the answer to the askyesno dialog.
ResetData(confirmed) ==
    /\ IF confirmed
       THEN LET file_path == get_file_path(dm.current_dice_set, dm.current_num_dice)
            IN  /\ files' = delete_file(files, file_path)
                /\ recorded_under' = delete_file(recorded_under, file_path)
                /\ dm' = [dm EXCEPT !.current_roll = <<>>]
                /\ last_fairness_stats' = show_graph(dm', files', prefs_alpha)
       ELSE UNCHANGED <<dm, files, recorded_under, last_fairness_stats>>
    /\ dialog' = "Confirm Reset"
    /\ last_op' = IF confirmed THEN "reset_data" ELSE "reset_declined"
    /\ UNCHANGED <<clicks, core_vars, app_vars>>

\* MultiDiceTracker not running: the values of its constructor.
TrackerIdle ==
    /\ tracker_num_dice = Some(1)
    /\ tracker_roll_file = None
    /\ tracker_rolls = <<>>
    /\ tracker_current_roll = <<>>

\* The simulator tab before any simulation: the values of its constructor.
SimIdle ==
    /\ sim_faces = default_faces
    /\ sim_last_simulation = None
    /\ sim_last_fairness_stats = None
    /\ sim_last_faces = None
    /\ sim_runs = 0

\* The saved preferences before any change: DEFAULT_PREFERENCES.
AppIdle ==
    /\ prefs_alpha = statistical_alpha
    /\ TrackerIdle
    /\ SimIdle

CoreIdle ==
    /\ c_args = [fn |-> "none"]
    /\ c_op = "idle"
    /\ c_ret = [raised |-> "", value |-> None]
    /\ c_calls = <<>>

\* After construction: setup_ui has applied the initial configuration, the
\* set "A" of one die with the default_faces preference; no data file exists.
Init ==
    /\ \E faces \in FacesInputs : dm = set_current_dice(<<"A">>, 1, faces)
    /\ files = <<>>
    /\ recorded_under = <<>>
    /\ last_fairness_stats = None
    /\ dialog = ""
    /\ last_op = "none"
    /\ clicks = 0
    /\ CoreIdle
    /\ AppIdle

Next ==
    \/ \E cfg \in ConfigInputs : ApplyConfig(cfg[1], cfg[2], cfg[3])
    \/ \E value \in 1..max_button_faces : OnRoll(value)
    \/ \E entered \in EnteredInputs : OnRollCustom(entered)
    \/ \E confirmed \in BOOLEAN : ResetData(confirmed)

Spec == Init /\ [][Next]_vars

-----------------------------------------------------------------------------
(* dice_simulator.py: the simulator tab. Its files live in SIMULATION_DIR.    *)

Underscore == Tok("underscore", 0)
Word(w) == Tok(w, 0)

\* '_'.join(parts)
RECURSIVE JoinUnderscore(_)
JoinUnderscore(parts) ==
    IF parts = <<>> THEN <<>>
    ELSE IF Len(parts) = 1 THEN parts[1]
    ELSE parts[1] \o <<Underscore>> \o JoinUnderscore(Tail(parts))

\* get_simulation_file_path(dice_name, num_dice, faces, num_rolls): the file
\* {num_dice}dice_{faces}faces_{num_rolls}rolls_{safe_name} of SIMULATION_DIR.
\* The characters of a simulation name are text tokens, blanks are Space.
get_simulation_file_path(dice_name, num_dice, faces, num_rolls) ==
    LET keep(c) == c.k = "text" \/ c \in {Space, Underscore, Dash}
        stripped == Strip(Filter(dice_name, keep), Space)
        safe_name == [i \in DOMAIN stripped |->
                         IF stripped[i] = Space THEN Underscore ELSE stripped[i]]
    IN  <<SIMULATION_DIR,
          Str(num_dice) \o <<Word("dice"), Underscore>>
              \o Str(faces) \o <<Word("faces"), Underscore>>
              \o Str(num_rolls) \o <<Word("rolls"), Underscore>> \o safe_name>>

\* part.replace(word, '')
Without(part, word) == Select(part, {i \in DOMAIN part : part[i] # Word(word)})

\* get_available_simulations(): one entry per file of SIMULATION_DIR whose
\* name has at least four parts, the first three holding integers.
get_available_simulations(fs) ==
    LET parts(q) == Split(q[2], Underscore)
        fits(q) == /\ q[1] = SIMULATION_DIR
                   /\ Len(parts(q)) >= 4
                   /\ IntParses(Without(parts(q)[1], "dice"))
                   /\ IntParses(Without(parts(q)[2], "faces"))
                   /\ IntParses(Without(parts(q)[3], "rolls"))
    IN  {[name |-> JoinUnderscore(SubSeq(parts(q), 4, Len(parts(q)))),
          num_dice |-> IntOf(Without(parts(q)[1], "dice")),
          faces |-> IntOf(Without(parts(q)[2], "faces")),
          num_rolls |-> IntOf(Without(parts(q)[3], "rolls")),
          full_path |-> q] : q \in {q \in DOMAIN fs : fits(q)}}

\* open(file_path, 'w') and one line ','.join(map(str, roll)) per roll.
write_simulation(fs, file_path, rolls) ==
    LET lines == [i \in DOMAIN rolls |-> Join([j \in DOMAIN rolls[i] |-> Str(rolls[i][j])])]
    IN  [q \in DOMAIN fs \cup {file_path} |-> IF q = file_path THEN lines ELSE fs[q]]

\* Whether DiceSimulator.create_simulation_figure(rolls, faces, dark_mode)
\* raises: for no rolls or rolls of one die it draws the fairness text, and
\* f"P-value: {p_value:.4f}" raises TypeError when p_value is None.
create_simulation_figure_raises(rolls, faces, alpha) ==
    /\ ~(rolls # <<>> /\ Len(rolls[1]) > 1)
    /\ simulation_fairness_stats(rolls, faces, alpha).fairness_test.p_value = None

\* last_fairness_stats after show_simulation_results(rolls, faces): assigned
\* from the figure's statistics unless create_simulation_figure raises.
show_simulation_results(stats, rolls, faces, alpha) ==
    IF create_simulation_figure_raises(rolls, faces, alpha) THEN stats
    ELSE Some(simulation_fairness_stats(rolls, faces, alpha))

\* What the simulation parameter fields are set to in the runs explored.
SimNumDiceInputs == {1, 2}
SimNumRollsInputs == {0, 1}
SimFacesInputs == {2, 3}
SimNameInputs == {<<>>, <<Tok("text", 1)>>}
SimAlphaInputs == {10, statistical_alpha}

\* The faces field edited, or set by PreferencesTab.on_pref_faces_change.
SimSetFaces(value) ==
    /\ sim_faces' = value
    /\ last_op' = "sim_set_faces"
    /\ UNCHANGED <<dm, files, recorded_under, last_fairness_stats, dialog, clicks, core_vars,
                   prefs_vars, tracker_vars, sim_last_simulation, sim_last_fairness_stats,
                   sim_last_faces, sim_runs>>

\* DiceSimulatorTab.run_simulation with the fields num_dice, num_rolls and
\* name; continue_large is the answer to the large-simulation dialog.
RunSimulation(num_dice, num_rolls, raw_name, continue_large) ==
    LET faces == sim_faces
        name == Strip(raw_name, Space)
        refused == \/ name = <<>>
                   \/ num_dice < 1 \/ num_rolls < 1 \/ faces < 2
                   \/ (num_rolls > 999 /\ ~continue_large)
    IN  /\ sim_runs < MaxSimRuns
        /\ sim_runs' = sim_runs + 1
        /\ IF refused
           THEN /\ dialog' = IF name = <<>> THEN "Please enter a simulation name"
                             ELSE IF num_rolls > 999 /\ num_dice >= 1 /\ faces >= 2
                             THEN "Large Simulation"
                             ELSE "Invalid simulation parameters"
                /\ last_op' = "run_simulation_refused"
                /\ UNCHANGED <<files, sim_last_simulation, sim_last_fairness_stats, sim_last_faces>>
           ELSE \E simulated_rolls \in simulate_rolls_outcomes(num_rolls, num_dice, faces) :
                /\ files' = write_simulation(files,
                                get_simulation_file_path(name, num_dice, faces, num_rolls),
                                simulated_rolls)
                /\ sim_last_simulation' = Some(simulated_rolls)
                /\ sim_last_faces' = Some(faces)
                /\ sim_last_fairness_stats' =
                       show_simulation_results(sim_last_fairness_stats, simulated_rolls,
                                               faces, prefs_alpha)
                /\ dialog' = dialog
                /\ last_op' = "run_simulation"
        /\ UNCHANGED <<dm, recorded_under, last_fairness_stats, clicks, core_vars,
                       prefs_vars, tracker_vars, sim_faces>>

\* DiceSimulatorTab.load_simulation with the entry picked in the dialog.
LoadSimulation(selected_sim) ==
    /\ selected_sim \in get_available_simulations(files)
    /\ ~read_multiple_rolls_raises(files, selected_sim.full_path)
    /\ LET rolls == read_multiple_rolls(files, selected_sim.full_path)
       IN  /\ sim_faces' = selected_sim.faces
           /\ sim_last_simulation' = Some(rolls)
           /\ sim_last_faces' = Some(selected_sim.faces)
           /\ sim_last_fairness_stats' =
                  show_simulation_results(sim_last_fairness_stats, rolls,
                                          selected_sim.faces, prefs_alpha)
    /\ last_op' = "load_simulation"
    /\ UNCHANGED <<dm, files, recorded_under, last_fairness_stats, dialog, clicks, core_vars,
                   prefs_vars, tracker_vars, sim_runs>>

\* DiceSimulatorTab.reset_simulation; confirmed is the answer to askyesno,
\* asked only when a simulation is held.
ResetSimulation(confirmed) ==
    /\ IF sim_last_simulation \notin {None, Some(<<>>)} /\ confirmed
       THEN /\ sim_last_simulation' = None
            /\ sim_last_fairness_stats' = None
            /\ sim_last_faces' = None
            /\ last_op' = "reset_simulation"
       ELSE /\ UNCHANGED <<sim_last_simulation, sim_last_fairness_stats, sim_last_faces>>
            /\ last_op' = "reset_simulation_skipped"
    /\ UNCHANGED <<dm, files, recorded_under, last_fairness_stats, dialog, clicks, core_vars,
                   prefs_vars, tracker_vars, sim_faces, sim_runs>>

\* What the preferences tab does to the simulator tab when it redraws it:
\* show_simulation_results(last_simulation, sim_faces.get()) if a simulation is held.
SimRefresh(alpha) ==
    IF sim_last_simulation \notin {None, Some(<<>>)}
    THEN show_simulation_results(sim_last_fairness_stats, sim_last_simulation[1], sim_faces, alpha)
    ELSE sim_last_fairness_stats

-----------------------------------------------------------------------------
(* preferences_tab.py: the preferences tab beside the roller tab. The tab     *)
(* reaches the roller tab as self.app.roller_tab.                            *)

\* The values of the significance-level combobox: 0.01, 0.05, 0.10.
AlphaChoices == {10, 50, 100}

\* Every .dicegraph file of the directories dirs deleted.
ClearDirectories(fs, dirs) == [q \in {q \in DOMAIN fs : q[1] \notin dirs} |-> fs[q]]

\* PreferencesTab.on_pref_alpha_change: saves the preference; only the
\* simulator tab is refreshed.
OnPrefAlphaChange(value) ==
    /\ prefs_alpha' = value
    /\ sim_last_fairness_stats' = SimRefresh(value)
    /\ last_op' = "on_pref_alpha_change"
    /\ UNCHANGED <<dm, files, recorded_under, last_fairness_stats, dialog, clicks, core_vars,
                   tracker_vars, sim_faces, sim_last_simulation, sim_last_faces, sim_runs>>

\* The effect of a confirmed clear of the directories dirs: the files are
\* deleted and the roller tab redraws its graph.
ClearEffect(dirs) ==
    /\ files' = ClearDirectories(files, dirs)
    /\ recorded_under' = ClearDirectories(recorded_under, dirs)
    /\ last_fairness_stats' = show_graph(dm, files', prefs_alpha)
    /\ sim_last_simulation' = None
    /\ sim_last_faces' = None

\* PreferencesTab.clear_data_directory; confirmed is the answer to askyesno.
ClearDataDirectory(directory, confirmed) ==
    /\ IF confirmed
       THEN ClearEffect({directory})
       ELSE UNCHANGED <<files, recorded_under, last_fairness_stats, sim_last_simulation,
                        sim_last_faces>>
    /\ dialog' = "Confirm Clear"
    /\ last_op' = IF confirmed THEN "clear_data_directory" ELSE "clear_declined"
    /\ UNCHANGED <<dm, clicks, core_vars, prefs_vars, tracker_vars, sim_faces,
                   sim_last_fairness_stats, sim_runs>>

\* PreferencesTab.clear_all_data
ClearAllData(confirmed) ==
    /\ IF confirmed
       THEN ClearEffect({SINGLE_DICE_DIR, MULTIPLE_DICE_DIR, SIMULATION_DIR})
       ELSE UNCHANGED <<files, recorded_under, last_fairness_stats, sim_last_simulation,
                        sim_last_faces>>
    /\ dialog' = "Confirm Clear"
    /\ last_op' = IF confirmed THEN "clear_all_data" ELSE "clear_declined"
    /\ UNCHANGED <<dm, clicks, core_vars, prefs_vars, tracker_vars, sim_faces,
                   sim_last_fairness_stats, sim_runs>>

\* The roller tab and the preferences tab of one application, the user
\* switching between a one-die and a two-dice set of two faces.
PrefsConfigInputs == {<<1, 2, <<"A">>>>, <<2, 2, <<"A">>>>}

PrefsNext ==
    \/ \E cfg \in PrefsConfigInputs : ApplyConfig(cfg[1], cfg[2], cfg[3])
    \/ \E value \in 1..max_button_faces : OnRoll(value)
    \/ \E confirmed \in BOOLEAN : ResetData(confirmed)
    \/ \E value \in AlphaChoices : OnPrefAlphaChange(value)
    \/ \E directory \in {SINGLE_DICE_DIR, MULTIPLE_DICE_DIR, SIMULATION_DIR}, confirmed \in BOOLEAN :
           ClearDataDirectory(directory, confirmed)
    \/ \E confirmed \in BOOLEAN : ClearAllData(confirmed)

PrefsSpec == Init /\ [][PrefsNext]_vars

-----------------------------------------------------------------------------
(* The simulator tab and the preferences tab of one application.             *)

\* A simulation saved by an earlier session: ten rolls of one two-sided die.
SavedSimulation == <<<<1>>, <<2>>, <<1>>, <<2>>, <<1>>, <<2>>, <<1>>, <<2>>, <<1>>, <<2>>>>

\* After construction, the faces field showing the default_faces preference.
SimInit ==
    /\ dm = set_current_dice(<<"A">>, 1, 2)
    /\ files = write_simulation(<<>>,
                   get_simulation_file_path(<<Tok("text", 1)>>, 1, 2, Len(SavedSimulation)),
                   SavedSimulation)
    /\ recorded_under = <<>>
    /\ last_fairness_stats = None
    /\ dialog = ""
    /\ last_op = "none"
    /\ clicks = 0
    /\ CoreIdle
    /\ prefs_alpha = statistical_alpha
    /\ TrackerIdle
    /\ sim_faces \in SimFacesInputs
    /\ sim_last_simulation = None
    /\ sim_last_fairness_stats = None
    /\ sim_last_faces = None
    /\ sim_runs = 0

SimNext ==
    \/ \E value \in SimFacesInputs : SimSetFaces(value)
    \/ \E num_dice \in SimNumDiceInputs, num_rolls \in SimNumRollsInputs,
          raw_name \in SimNameInputs, continue_large \in BOOLEAN :
           RunSimulation(num_dice, num_rolls, raw_name, continue_large)
    \/ \E selected_sim \in get_available_simulations(files) : LoadSimulation(selected_sim)
    \/ \E confirmed \in BOOLEAN : ResetSimulation(confirmed)
    \/ \E value \in SimAlphaInputs : OnPrefAlphaChange(value)
    \/ \E directory \in {SINGLE_DICE_DIR, MULTIPLE_DICE_DIR, SIMULATION_DIR}, confirmed \in BOOLEAN :
           ClearDataDirectory(directory, confirmed)
    \/ \E confirmed \in BOOLEAN : ClearAllData(confirmed)

SimSpec == SimInit /\ [][SimNext]_vars

\* C29: in the simulator tab, whenever last_simulation is set,
\* last_fairness_stats is the fairness report of exactly that roll sequence
\* for that simulation's face count (at one of the significance levels the
\* preferences offer), an insufficient-data report included.
C29_SimulationStatsMatch ==
    sim_last_simulation # None =>
        \E alpha \in AlphaChoices :
            sim_last_fairness_stats =
                Some(get_dice_fairness(IntRolls(Flatten(sim_last_simulation[1])),
                                       sim_last_faces[1], alpha))

-----------------------------------------------------------------------------
(* TrackerN.py: MultiDiceTracker, a window of its own. Its roll files lie   *)
(* in the working directory; dice_rolls_<n>.dicegraph is the path <<".", n>>. *)

tracker_max_dice == 20

\* f"dice_rolls_{n}.dicegraph"
tracker_file(n) == <<".", n>>

\* MultiDiceTracker.log_roll
log_roll(fs, roll_file, values) ==
    AppendLine(fs, roll_file, Join([i \in DOMAIN values |-> Str(values[i])]))

\* MultiDiceTracker.read_rolls
read_rolls(fs, roll_file) == read_multiple_rolls(fs, roll_file)

\* open(roll_file, 'w') with nothing written: the file exists and is empty.
truncate_file(fs, roll_file) ==
    IF roll_file \in DOMAIN fs THEN [fs EXCEPT ![roll_file] = <<>>]
    ELSE fs @@ (roll_file :> <<>>)

\* What the user can leave in the number-of-dice field: a number of dice, a
\* number outside 1..20, or text that is no integer (None).
TrackerFieldInputs == {Some(0), Some(1), Some(2), Some(3), None}

\* The face buttons clicked: the first and the second of self.faces.
TrackerValues == {1, 2}

\* The user edits the number-of-dice field (an Entry bound to self.num_dice).
TrackerEditField(text) ==
    /\ tracker_num_dice # text
    /\ tracker_num_dice' = text
    /\ last_op' = "edit_num_dice"
    /\ UNCHANGED <<tracker_roll_file, tracker_rolls, tracker_current_roll, files,
                   dm, recorded_under, last_fairness_stats, dialog, clicks, core_vars, prefs_vars, sim_vars>>

\* MultiDiceTracker.set_dice. IntVar.get() on text that is no integer raises
\* TclError, which the handler does not catch: nothing changes.
TrackerSetDice ==
    /\ last_op' = "set_dice"
    /\ IF tracker_num_dice = None
       THEN UNCHANGED <<tracker_roll_file, tracker_rolls, tracker_current_roll, dialog>>
       ELSE LET n == tracker_num_dice[1]
            IN  IF n < 1 \/ n > tracker_max_dice
                THEN /\ dialog' = "Enter a valid number of dice (1-20)"
                     /\ UNCHANGED <<tracker_roll_file, tracker_rolls, tracker_current_roll>>
                ELSE /\ tracker_roll_file' = Some(n)
                     /\ tracker_rolls' = read_rolls(files, tracker_file(n))
                     /\ tracker_current_roll' = <<>>
                     /\ dialog' = "Ready to roll"
    /\ UNCHANGED <<tracker_num_dice, files,
                   dm, recorded_under, last_fairness_stats, clicks, core_vars, prefs_vars, sim_vars>>

\* MultiDiceTracker.on_roll(value), from a face button: n is read from the
\* field, the roll goes to the file chosen by the last set_dice.
TrackerOnRoll(value) ==
    /\ clicks < MaxClicks
    /\ clicks' = clicks + 1
    /\ last_op' = "on_roll"
    /\ IF tracker_num_dice = None
       THEN UNCHANGED <<tracker_rolls, tracker_current_roll, files, dialog>>
       ELSE LET n == tracker_num_dice[1]
                roll == Append(tracker_current_roll, value)
                roll_file == tracker_file(tracker_roll_file[1])
            IN  IF Len(roll) < n
                THEN /\ tracker_current_roll' = roll
                     /\ dialog' = "Selected"
                     /\ UNCHANGED <<tracker_rolls, files>>
                ELSE /\ files' = log_roll(files, roll_file, roll)
                     /\ tracker_current_roll' = <<>>
                     /\ tracker_rolls' = read_rolls(files', roll_file)
                     /\ dialog' = "Rolled"
    /\ UNCHANGED <<tracker_num_dice, tracker_roll_file,
                   dm, recorded_under, last_fairness_stats, core_vars, prefs_vars, sim_vars>>

\* MultiDiceTracker.reset_rolls
TrackerResetRolls ==
    /\ files' = truncate_file(files, tracker_file(tracker_roll_file[1]))
    /\ tracker_rolls' = <<>>
    /\ tracker_current_roll' = <<>>
    /\ dialog' = "Rolls reset!"
    /\ last_op' = "reset_rolls"
    /\ UNCHANGED <<tracker_num_dice, tracker_roll_file,
                   dm, recorded_under, last_fairness_stats, clicks, core_vars, prefs_vars, sim_vars>>

\* After construction: setup_ui has called set_dice with the field at 1; no
\* roll file exists.
TrackerInit ==
    /\ tracker_num_dice = Some(1)
    /\ tracker_roll_file = Some(1)
    /\ tracker_rolls = <<>>
    /\ tracker_current_roll = <<>>
    /\ files = <<>>
    /\ dialog = "Ready to roll"
    /\ last_op = "set_dice"
    /\ clicks = 0
    /\ dm = set_current_dice(None, 1, 6)
    /\ recorded_under = <<>>
    /\ last_fairness_stats = None
    /\ prefs_alpha = statistical_alpha
    /\ SimIdle
    /\ CoreIdle

TrackerNext ==
    \/ \E text \in TrackerFieldInputs : TrackerEditField(text)
    \/ TrackerSetDice
    \/ \E value \in TrackerValues : TrackerOnRoll(value)
    \/ TrackerResetRolls

TrackerSpec == TrackerInit /\ [][TrackerNext]_vars

\* C26: in MultiDiceTracker every roll of the file dice_rolls_<n>.dicegraph
\* has exactly n values.
C26_RollsHaveNValues ==
    \A roll_file \in DOMAIN files :
        LET rolls == read_rolls(files, roll_file)
        IN  \A i \in DOMAIN rolls : Len(rolls[i]) = roll_file[2]

-----------------------------------------------------------------------------
(* Properties of the roller tab (checked under Spec) *)

\* The rolls a file holds, as its reader returns them, each as a tuple of
\* values: read_single_rolls under SingleDiceResults, read_multiple_rolls
\* under MultipleDiceResults.
HistoryAt(fs, file_path) ==
    IF file_path[1] = SINGLE_DICE_DIR
    THEN LET rolls == read_single_rolls(fs, file_path)
         IN  [i \in DOMAIN rolls |-> <<rolls[i]>>]
    ELSE read_multiple_rolls(fs, file_path)

LinesAt(fs, file_path) == IF file_path \in DOMAIN fs THEN fs[file_path] ELSE <<>>

CurrentPath == get_file_path(dm.current_dice_set, dm.current_num_dice)

\* The history the roller tab reads, counts and resets in the current state.
CurrentHistory == HistoryAt(files, CurrentPath)

\* new is old, or old with one item appended, or empty.
SameAppendedOrEmptied(old, new) ==
    \/ new = old
    \/ Len(new) = Len(old) + 1 /\ SubSeq(new, 1, Len(old)) = old
    \/ new = <<>>

\* C4: distinct dice-set configurations never share roll history: every roll
\* of the history the tab reads (and counts, and resets) under the current
\* configuration was recorded under that same name, number of dice and faces.
C4_NoSharedHistory ==
    CurrentPath \in DOMAIN recorded_under =>
        \A i \in DOMAIN recorded_under[CurrentPath] :
            recorded_under[CurrentPath][i] = CurrentConfig(dm)

\* C5: a dice set's roll history is append-only: every step leaves each
\* history (the file's lines, and the rolls read from it) unchanged, appends
\* exactly one roll at its end, or empties it.
C5_AppendOnly ==
    [][\A file_path \in DOMAIN files \cup DOMAIN files' :
          \/ LinesAt(files', file_path) = LinesAt(files, file_path)
          \/ /\ SameAppendedOrEmptied(LinesAt(files, file_path), LinesAt(files', file_path))
             /\ SameAppendedOrEmptied(HistoryAt(files, file_path), HistoryAt(files', file_path))]_vars

\* C5 happens: a roll has just been appended to a history that held rolls.
C5_Witness ==
    /\ last_op = "on_roll"
    /\ Len(CurrentHistory) >= 2
    /\ Len(LinesAt(files, CurrentPath)) = Len(CurrentHistory)

\* C6: every face value in the current dice set's roll history is an integer
\* in [1, F], F the currently configured number of faces.
C6_ValuesWithinFaces ==
    \A i \in DOMAIN CurrentHistory :
        \A j \in DOMAIN CurrentHistory[i] :
            CurrentHistory[i][j] \in 1..dm.current_dice_faces

\* A step in which on_roll ran: a face button was clicked, or on_roll_custom
\* accepted the value entered.
OnRollStep == clicks' = clicks + 1 /\ dialog' = ""

\* C25: in multi-dice mode (N = current_num_dice >= 2) the partial roll always
\* has between 0 and N-1 values; an on_roll with fewer than N-1 values in the
\* partial roll adds its value to the partial roll and appends nothing to the
\* history; the N-th on_roll since the partial roll was emptied appends to the
\* history one roll, the N-1 values of the partial roll followed by the value
\* clicked, and leaves the partial roll empty.
C25_PartialRoll ==
    /\ [](dm.current_num_dice >= 2 => Len(dm.current_roll) \in 0..(dm.current_num_dice - 1))
    /\ [][OnRollStep /\ dm.current_num_dice >= 2 =>
             IF Len(dm.current_roll) < dm.current_num_dice - 1
             THEN /\ files' = files
                  /\ \E value \in 1..dm.current_dice_faces :
                         dm' = [dm EXCEPT !.current_roll = Append(@, value)]
             ELSE /\ dm' = [dm EXCEPT !.current_roll = <<>>]
                  /\ \E value \in 1..dm.current_dice_faces :
                         HistoryAt(files', CurrentPath) =
                             Append(CurrentHistory, Append(dm.current_roll, value))]_vars

\* C25 happens: the last click completed a roll of two or more dice whose
\* values differ, and the partial roll is empty again.
C25_Witness ==
    /\ last_op = "on_roll"
    /\ dm.current_num_dice >= 2
    /\ dm.current_roll = <<>>
    /\ CurrentHistory # <<>>
    /\ LET roll == CurrentHistory[Len(CurrentHistory)]
       IN  Len(roll) = dm.current_num_dice /\ roll[1] # roll[Len(roll)]

\* The messages of apply_config's error dialogs.
ApplyConfigErrors ==
    {"Please enter a dice set name", "Number of dice must be between 1 and 20",
     "Number of faces must be at least 2"}

\* C27: apply_config with an empty name, a number of dice outside 1..20 or
\* fewer than 2 faces shows an error and leaves the manager's set name, dice
\* count, face count and partial roll, and every roll file, unchanged.
C27_InvalidConfigLeavesState ==
    [][last_op' = "apply_config" =>
          \A cfg \in ConfigInputs :
              (/\ \/ Strip(cfg[3], " ") = <<>>
                  \/ cfg[1] < 1 \/ cfg[1] > 20
                  \/ cfg[2] < 2
               /\ ApplyConfig(cfg[1], cfg[2], cfg[3]))
              => /\ dialog' \in ApplyConfigErrors
                 /\ dm' = dm
                 /\ files' = files]_vars

\* C27 happens: apply_config has just rejected its input while a partial roll
\* and a roll history existed, and both are still there.
C27_Witness ==
    /\ last_op = "apply_config"
    /\ dialog \in ApplyConfigErrors
    /\ dm.current_roll # <<>>
    /\ CurrentHistory # <<>>

C24_StatisticsNeverStale ==
    last_fairness_stats =
        IF CurrentHistory = <<>> THEN None
        ELSE Some(get_dice_fairness(IntRolls(Flatten(CurrentHistory)), dm.current_dice_faces,
                                    prefs_alpha))

-----------------------------------------------------------------------------
(* The statistics core, one call at a time: the arguments are drawn from    *)
(* bounded sets in the initial state and the call returns in one step.     *)

RECURSIVE Repeat(_, _)
Repeat(s, k) == IF k = 0 THEN <<>> ELSE s \o Repeat(s, k - 1)

SeqsUpTo(S, n) == UNION {[1..k -> S] : k \in 0..n}

\* s cut into consecutive rolls of n values.
Chunk(s, n) == [i \in 1..(Len(s) \div n) |-> [j \in 1..n |-> s[(i - 1) * n + j]]]

FlatInputs == {Repeat(b, k) : b \in SeqsUpTo(1..MaxVal, MaxBase), k \in 1..MaxRep}

NestedInputs == UNION {{Chunk(s, n) : s \in {f \in FlatInputs : Len(f) % n = 0}}
                       : n \in 1..MaxDice}

\* s without the last value of its last roll: a history of mixed arity.
Ragged(s) == [s EXCEPT ![Len(s)] = SubSeq(@, 1, Len(@) - 1)]

MixedInputs == {Ragged(s) : s \in {n \in NestedInputs : Len(n) >= 2}}

RollInputs == {IntRolls(s) : s \in FlatInputs} \cup {ListRolls(s) : s \in NestedInputs}

\* expected_probs: the default None, two distributions, a list that does not
\* sum to 1, and a distribution with an impossible category.
ProbInputs ==
    {None,
     Some(<< <<1, 2>>, <<1, 2>> >>),
     Some(<< <<1, 2>>, <<1, 4>>, <<1, 4>> >>),
     Some(<< <<1, 2>>, <<1, 4>> >>),
     Some(<< <<1, 1>>, <<0, 1>> >>)}

\* <<num_rolls, num_dice, faces>> of the simulations whose rolls are analysed:
\* around the validity threshold num_rolls * num_dice = 5 * faces.
AnalysedSimulations ==
    {<<0, 1, 2>>, <<1, 1, 2>>, <<3, 3, 2>>, <<9, 1, 2>>, <<10, 1, 2>>, <<5, 2, 2>>,
     <<11, 1, 2>>, <<4, 3, 2>>}

FaceInputs == 0..MaxFaces

\* alpha in thousandths; 0 and 1000 (0.0 and 1.0) lie outside (0,1).
AlphaInputs == {0, 10, 50, 100, 1000}

\* p-values in thousandths: every hundredth of [0,1], and the neighbours of 0.05.
PInputs == {10 * k : k \in 0..100} \cup {49, 51}

CountInputs == UNION {[1..f -> 0..MaxCount] : f \in FaceInputs}

CoreArgs ==
    [fn : {"get_dice_fairness"}, rolls : RollInputs, num_faces : FaceInputs, alpha : AlphaInputs]
    \cup [fn : {"check_sample_size_validity"}, observed : CountInputs, num_categories : FaceInputs]
    \cup [fn : {"interpret_chi_square_result"}, p_value : PInputs, alpha : AlphaInputs \cup {1, 500, 999}]
    \cup [fn : {"calculate_statistics"}, rolls : FlatInputs]
    \cup [fn : {"calculate_multi_statistics"}, rolls : NestedInputs \cup MixedInputs,
           dice_faces : FaceInputs]
    \cup [fn : {"simulate_rolls", "DiceManager.simulate_rolls"},
           num_rolls : 0..MaxSimRolls, num_dice : 0..MaxDice, faces : 0..MaxVal]
    \cup [fn : {"chi_square_test"}, observed : CountInputs, expected_probs : ProbInputs]
    \cup [fn : {"sum_distribution"}, rolls : (NestedInputs \cup MixedInputs) \ {<<>>}]
    \cup [fn : {"simulation_fairness_stats"}, simulation : AnalysedSimulations]
    \cup [fn : {"log_single_roll"}, rolls : FlatInputs]
    \cup [fn : {"log_multiple_rolls"}, rolls : NestedInputs \ {<<>>}]

\* Mutant: get_dice_fairness reverses the list it works on; for a list of
\* ints that list is the caller's (flat_rolls = rolls).
rolls_after_get_dice_fairness_reversed(rolls) ==
    LET s == rolls.ints
    IN  [rolls EXCEPT !.ints = [i \in DOMAIN s |-> s[Len(s) + 1 - i]]]

\* The list object handed to get_dice_fairness, at return. When it holds ints
\* flat_rolls is that very list (flat_rolls = rolls); the function calls
\* Counter and len on it and writes to neither name.
rolls_after_get_dice_fairness(rolls) == rolls

\* self after DiceManager.simulate_rolls returned results: roll_die,
\* roll_dice and simulate_rolls assign no attribute of self.
manager_after_simulate_rolls(d, results) == d

Returned(v) == [raised |-> "", value |-> v]
Raised(e) == [raised |-> e, value |-> None]

CallGetDiceFairness ==
    /\ c_op = "idle" /\ c_args.fn = "get_dice_fairness"
    /\ LET run == get_dice_fairness_run(c_args.rolls, c_args.num_faces, c_args.alpha)
       IN  /\ c_ret' = Returned(run.result)
           /\ c_calls' = run.calls
    /\ c_op' = "returned"
    /\ c_args' = [c_args EXCEPT !.rolls = rolls_after_get_dice_fairness(@)]
    /\ UNCHANGED <<roller_vars, app_vars>>

CallCheckSampleSizeValidity ==
    /\ c_op = "idle" /\ c_args.fn = "check_sample_size_validity"
    /\ c_ret' = Returned(check_sample_size_validity(c_args.observed, c_args.num_categories))
    /\ c_calls' = <<>>
    /\ c_op' = "returned"
    /\ UNCHANGED <<c_args, roller_vars, app_vars>>

CallInterpretChiSquareResult ==
    /\ c_op = "idle" /\ c_args.fn = "interpret_chi_square_result"
    /\ c_ret' = Returned(interpret_chi_square_result(c_args.p_value, c_args.alpha))
    /\ c_calls' = <<>>
    /\ c_op' = "returned"
    /\ UNCHANGED <<c_args, roller_vars, app_vars>>

CallCalculateStatistics ==
    /\ c_op = "idle" /\ c_args.fn = "calculate_statistics"
    /\ c_ret' = Returned(calculate_statistics(c_args.rolls))
    /\ c_calls' = <<>>
    /\ c_op' = "returned"
    /\ UNCHANGED <<c_args, roller_vars, app_vars>>

CallCalculateMultiStatistics ==
    /\ c_op = "idle" /\ c_args.fn = "calculate_multi_statistics"
    /\ c_ret' = Returned(calculate_multi_statistics(c_args.rolls, c_args.dice_faces))
    /\ c_calls' = <<>>
    /\ c_op' = "returned"
    /\ UNCHANGED <<c_args, roller_vars, app_vars>>

CallSimulateRolls ==
    /\ c_op = "idle" /\ c_args.fn = "simulate_rolls"
    /\ IF simulate_rolls_raises(c_args.num_rolls, c_args.num_dice, c_args.faces)
       THEN c_ret' = Raised("ValueError")
       ELSE \E results \in simulate_rolls_outcomes(c_args.num_rolls, c_args.num_dice, c_args.faces) :
                c_ret' = Returned(results)
    /\ c_calls' = <<>>
    /\ c_op' = "returned"
    /\ UNCHANGED <<c_args, roller_vars, app_vars>>

CallManagerSimulateRolls ==
    /\ c_op = "idle" /\ c_args.fn = "DiceManager.simulate_rolls"
    /\ IF simulate_rolls_raises(c_args.num_rolls, c_args.num_dice, c_args.faces)
       THEN c_ret' = Raised("ValueError") /\ UNCHANGED dm
       ELSE \E results \in manager_simulate_rolls_outcomes(c_args.num_rolls, c_args.num_dice,
                                                           c_args.faces) :
                /\ c_ret' = Returned(results)
                /\ dm' = manager_after_simulate_rolls(dm, results)
    /\ c_calls' = <<>>
    /\ c_op' = "returned"
    /\ UNCHANGED <<c_args, files, recorded_under, last_fairness_stats, dialog, last_op, clicks, app_vars>>

CallChiSquareTest ==
    /\ c_op = "idle" /\ c_args.fn = "chi_square_test"
    /\ LET run == chi_square_test_run(c_args.observed, c_args.expected_probs)
       IN  /\ c_ret' = Returned(run.value)
           /\ c_calls' = run.calls
    /\ c_op' = "returned"
    /\ UNCHANGED <<c_args, roller_vars, app_vars>>

CallSumDistribution ==
    /\ c_op = "idle" /\ c_args.fn = "sum_distribution"
    /\ c_ret' = Returned(sum_distribution(c_args.rolls))
    /\ c_calls' = <<>>
    /\ c_op' = "returned"
    /\ UNCHANGED <<c_args, roller_vars, app_vars>>

\* DiceSimulator.simulate_rolls followed by the analysis of its result; the
\* rolls simulated are kept in c_calls.
CallSimulationFairnessStats ==
    /\ c_op = "idle" /\ c_args.fn = "simulation_fairness_stats"
    /\ LET sim == c_args.simulation
       IN  \E rolls \in simulate_rolls_outcomes(sim[1], sim[2], sim[3]) :
               /\ c_ret' = Returned(simulation_fairness_stats(rolls, sim[3], statistical_alpha))
               /\ c_calls' = <<rolls>>
    /\ c_op' = "returned"
    /\ UNCHANGED <<c_args, roller_vars, app_vars>>

\* The log a caller starts when the core is called: the set "B", which has
\* no file yet.
NewLogPath(num_dice) == get_file_path(<<"B">>, num_dice)

\* log_single_roll for each value of c_args.rolls, then read_single_rolls.
CallLogSingleRolls ==
    /\ c_op = "idle" /\ c_args.fn = "log_single_roll"
    /\ files' = LogSingleRolls(files, NewLogPath(1), c_args.rolls)
    /\ c_ret' = Returned(read_single_rolls(files', NewLogPath(1)))
    /\ c_calls' = <<>>
    /\ c_op' = "returned"
    /\ UNCHANGED <<c_args, dm, recorded_under, last_fairness_stats, dialog, last_op, clicks, app_vars>>

\* log_multiple_rolls for each roll of c_args.rolls, then read_multiple_rolls.
CallLogMultipleRolls ==
    /\ c_op = "idle" /\ c_args.fn = "log_multiple_rolls"
    /\ files' = LogMultipleRolls(files, NewLogPath(2), c_args.rolls)
    /\ c_ret' = IF read_multiple_rolls_raises(files', NewLogPath(2))
                THEN Raised("ValueError")
                ELSE Returned(read_multiple_rolls(files', NewLogPath(2)))
    /\ c_calls' = <<>>
    /\ c_op' = "returned"
    /\ UNCHANGED <<c_args, dm, recorded_under, last_fairness_stats, dialog, last_op, clicks, app_vars>>

\* The roller tab while the core is called: the set "A" of two dice with two
\* faces, one complete roll <<1, 2>> in its file and the first die of the
\* next roll clicked.
RollerMidRoll ==
    LET file_path == get_file_path(<<"A">>, 2)
        d == [set_current_dice(<<"A">>, 2, 2) EXCEPT !.current_roll = <<1>>]
    IN  /\ dm = d
        /\ files = log_multiple_rolls(<<>>, file_path, <<1, 2>>)
        /\ recorded_under = RecordUnder(<<>>, file_path, CurrentConfig(d))
        /\ last_fairness_stats = show_graph(d, files, prefs_alpha)
        /\ dialog = ""
        /\ last_op = "on_roll"
        /\ clicks = 3

CoreInit ==
    /\ c_args \in CoreArgs
    /\ c_op = "idle"
    /\ c_ret = Returned(None)
    /\ c_calls = <<>>
    /\ AppIdle
    /\ RollerMidRoll

CoreNext ==
    \/ CallGetDiceFairness
    \/ CallCheckSampleSizeValidity
    \/ CallInterpretChiSquareResult
    \/ CallCalculateStatistics
    \/ CallCalculateMultiStatistics
    \/ CallSimulateRolls
    \/ CallManagerSimulateRolls
    \/ CallChiSquareTest
    \/ CallSumDistribution
    \/ CallSimulationFairnessStats
    \/ CallLogSingleRolls
    \/ CallLogMultipleRolls

CoreSpec == CoreInit /\ [][CoreNext]_vars

-----------------------------------------------------------------------------
(* Properties of the statistics core (checked under CoreSpec) *)

ReturnedFrom(fn) == c_op = "returned" /\ c_args.fn = fn /\ c_ret.raised = ""

\* Number of positions of the sequence s that hold v.
Occ(s, v) == Cardinality({i \in DOMAIN s : s[i] = v})

\* Number of die outcomes equal to v in a sequence of multi-die rolls.
RECURSIVE OccRolls(_, _)
OccRolls(rolls, v) ==
    IF rolls = <<>> THEN 0 ELSE Occ(Head(rolls), v) + OccRolls(Tail(rolls), v)

\* Number of die outcomes in a sequence of multi-die rolls.
RECURSIVE Outcomes(_)
Outcomes(rolls) == IF rolls = <<>> THEN 0 ELSE Len(Head(rolls)) + Outcomes(Tail(rolls))

\* Sum of the entries s[1..n], from the last one down.
RECURSIVE SumUpTo(_, _)
SumUpTo(s, n) == IF n = 0 THEN 0 ELSE s[n] + SumUpTo(s, n - 1)

\* Sum of the values of a dict.
RECURSIVE SumValues(_)
SumValues(c) ==
    IF DOMAIN c = {} THEN 0
    ELSE LET k == CHOOSE k \in DOMAIN c : TRUE
         IN  c[k] + SumValues([j \in DOMAIN c \ {k} |-> c[j]])

\* Occurrences of face v among the outcomes handed to get_dice_fairness.
OccArg(rolls, v) == IF rolls.lists # <<>> THEN OccRolls(rolls.lists, v) ELSE Occ(rolls.ints, v)
OutcomesArg(rolls) == IF rolls.lists # <<>> THEN Outcomes(rolls.lists) ELSE Len(rolls.ints)

\* C1: get_dice_fairness applies the sample-size gate: whenever the sample is
\* reported invalid (fewer than 5*F outcomes on the faces 1..F), is_fair,
\* p_value and chi2_stat are None and the conclusion is the insufficient-data
\* message; the chi-square routine is invoked only on a valid sample.
C1_SampleSizeGate ==
    ReturnedFrom("get_dice_fairness") =>
        LET r == c_ret.value
            F == c_args.num_faces
            observed_total == SumUpTo([i \in 1..F |-> OccArg(c_args.rolls, i)], IF F > 0 THEN F ELSE 0)
            invalid == observed_total < 5 * F
        IN  /\ r.sample_validity.valid = ~invalid
            /\ invalid =>
                 /\ r.fairness_test.is_fair = None
                 /\ r.fairness_test.p_value = None
                 /\ r.fairness_test.chi2_stat = None
                 /\ r.fairness_test.conclusion =
                        <<"Not enough data for reliable fairness test. Need at least",
                          5 * F, "rolls (currently have", observed_total, ")">>
            /\ (\E i \in DOMAIN c_calls : c_calls[i] = "chi_square_test") => ~invalid

\* C1 happens: a call with some data, but less than 5*F, has returned.
C1_Witness ==
    /\ ReturnedFrom("get_dice_fairness")
    /\ c_args.num_faces >= 2
    /\ c_ret.value.total_rolls > 0
    /\ ~c_ret.value.sample_validity.valid

\* C2: check_sample_size_validity returns valid = (sum(counts) >= 5*F),
\* total = sum(counts) and min_required = 5*F; sum = 5*F is valid.
C2_ValidityRule ==
    ReturnedFrom("check_sample_size_validity") =>
        LET r == c_ret.value
            F == c_args.num_categories
            sum == SumUpTo(c_args.observed, Len(c_args.observed))
        IN  /\ r.valid = (sum >= 5 * F)
            /\ r.total = sum
            /\ r.min_required = 5 * F
            /\ (sum = 5 * F => r.valid)

\* C2 happens: the boundary sample sum = 5*F over F >= 2 categories is checked.
C2_Witness ==
    /\ ReturnedFrom("check_sample_size_validity")
    /\ c_args.num_categories >= 2
    /\ Len(c_args.observed) = c_args.num_categories
    /\ SumUpTo(c_args.observed, Len(c_args.observed)) = 5 * c_args.num_categories
    /\ c_ret.value.valid

\* C3: for p_value in [0,1] and alpha in (0,1), interpret_chi_square_result
\* gives is_fair = (p_value >= alpha); a tie p_value = alpha is fair.
C3_DecisionRule ==
    (/\ ReturnedFrom("interpret_chi_square_result")
     /\ c_args.p_value \in 0..1000
     /\ c_args.alpha \in 1..999) =>
        /\ c_ret.value.is_fair = Some(c_args.p_value >= c_args.alpha)
        /\ (c_args.p_value = c_args.alpha => c_ret.value.is_fair = Some(TRUE))

\* C3 happens: a tie p_value = alpha in (0,1) has been interpreted.
C3_Witness ==
    /\ ReturnedFrom("interpret_chi_square_result")
    /\ c_args.alpha \in 1..999
    /\ c_args.p_value = c_args.alpha

\* C7: aggregation flattens multi-die rolls: over R rolls of arity N every
\* face count is the number of die outcomes showing that face, the counts sum
\* to R*N, and the reported total is R*N.
C7_FlattenedCounts ==
    /\ ReturnedFrom("calculate_multi_statistics") =>
        LET rolls == c_args.rolls
            counts == c_ret.value[1]
            total == c_ret.value[2]
        IN  \A N \in 1..(MaxDice + 1) :
                (\A i \in DOMAIN rolls : Len(rolls[i]) = N) =>
                    /\ total = Len(rolls) * N
                    /\ SumValues(counts) = Len(rolls) * N
                    /\ \A v \in 1..(MaxVal + 1) : DictGet(counts, v, 0) = OccRolls(rolls, v)
    /\ (ReturnedFrom("get_dice_fairness") /\ c_args.rolls.lists # <<>>) =>
        LET rolls == c_args.rolls.lists
            r == c_ret.value
        IN  \A N \in 1..(MaxDice + 1) :
                (\A i \in DOMAIN rolls : Len(rolls[i]) = N) =>
                    /\ r.total_rolls = Len(rolls) * N
                    /\ SumValues(r.face_counts) = Len(rolls) * N
                    /\ \A v \in 1..(MaxVal + 1) : DictGet(r.face_counts, v, 0) = OccRolls(rolls, v)

\* C7 happens: several rolls of two or more dice have been aggregated.
C7_Witness ==
    /\ ReturnedFrom("calculate_multi_statistics")
    /\ Len(c_args.rolls) >= 2
    /\ \A i \in DOMAIN c_args.rolls : Len(c_args.rolls[i]) = 2
    /\ c_ret.value[2] = 2 * Len(c_args.rolls)

\* The percentage entry point e reports for face v: the callers read
\* calculate_statistics' dict with percentages.get(face, 0.0).
ReportedPercentage(percentages, v) == DictGet(percentages, v, <<0, 1>>)

PercentagesRight(percentages, faces, occ(_), total) ==
    \A v \in faces :
        /\ ReportedPercentage(percentages, v) # ZeroDivisionError
        /\ ReportedPercentage(percentages, v) =
               IF total > 0 THEN Rat(occ(v) * 100, total) ELSE <<0, 1>>

\* C8: every aggregation entry point reports, for every face 1..F,
\* count/total*100 when total > 0 and 0.0 when total = 0, and never divides
\* by zero.
C8_Percentages ==
    /\ ReturnedFrom("calculate_statistics") =>
        LET occ(v) == Occ(c_args.rolls, v)
        IN  /\ DOMAIN c_ret.value[3] \subseteq 1..MaxVal
            /\ PercentagesRight(c_ret.value[3], 1..(MaxVal + 1), occ, Len(c_args.rolls))
    /\ ReturnedFrom("calculate_multi_statistics") =>
        LET occ(v) == OccRolls(c_args.rolls, v)
        IN  /\ DOMAIN c_ret.value[3] = 1..c_args.dice_faces
            /\ PercentagesRight(c_ret.value[3], 1..c_args.dice_faces, occ, Outcomes(c_args.rolls))
    /\ ReturnedFrom("get_dice_fairness") =>
        LET occ(v) == OccArg(c_args.rolls, v)
        IN  /\ DOMAIN c_ret.value.face_percentages = 1..c_args.num_faces
            /\ PercentagesRight(c_ret.value.face_percentages, 1..c_args.num_faces, occ,
                                OutcomesArg(c_args.rolls))

\* C8 happens: get_dice_fairness has reported percentages for no outcomes at
\* all (the total = 0 case).
C8_Witness ==
    /\ ReturnedFrom("get_dice_fairness")
    /\ c_args.num_faces >= 2
    /\ c_ret.value.total_rolls = 0
    /\ \A v \in 1..c_args.num_faces : c_ret.value.face_percentages[v] = <<0, 1>>

\* C9: on an empty roll sequence get_dice_fairness returns total_rolls = 0,
\* percentage 0.0 for every face 1..F, sample_validity.valid false and
\* is_fair None (F >= 1; F = 0 is not a face count, see C10).
C9_EmptyRolls ==
    (/\ c_op = "returned" /\ c_args.fn = "get_dice_fairness"
     /\ c_args.rolls = IntRolls(<<>>)
     /\ c_args.num_faces >= 1) =>
        /\ c_ret.raised = ""
        /\ c_ret.value.total_rolls = 0
        /\ c_ret.value.face_percentages = [v \in 1..c_args.num_faces |-> <<0, 1>>]
        /\ c_ret.value.sample_validity.valid = FALSE
        /\ c_ret.value.fairness_test.is_fair = None

\* C9 happens: get_dice_fairness has returned from a call on no rolls.
C9_Witness ==
    /\ c_op = "returned" /\ c_args.fn = "get_dice_fairness"
    /\ c_args.rolls = IntRolls(<<>>)
    /\ c_args.num_faces >= 2
    /\ c_ret.value.fairness_test.is_fair = None

\* Whether a call's arguments hold an invalid configuration.
InvalidConfig(a) ==
    CASE a.fn = "get_dice_fairness" -> a.num_faces < 2 \/ a.alpha <= 0 \/ a.alpha >= 1000
      [] a.fn = "check_sample_size_validity" -> a.num_categories < 2
      [] a.fn = "interpret_chi_square_result" -> a.alpha <= 0 \/ a.alpha >= 1000
      [] a.fn = "calculate_statistics" -> FALSE
      [] a.fn = "calculate_multi_statistics" -> a.dice_faces < 2
      [] a.fn = "simulate_rolls" -> a.faces < 2 \/ a.num_dice < 1

\* C10: a call into the core with faces < 2, num_dice < 1 or alpha outside
\* (0,1) produces an error and no statistics, rolls or verdict.
C10_InvalidConfigRejected ==
    (c_op = "returned" /\ InvalidConfig(c_args)) =>
        (c_ret.raised # "" /\ c_ret.value = None)

\* The verdict get_dice_fairness derives from what chi_square_test returned.
VerdictOf(chi, alpha) == interpret_chi_square_result(chi[2], alpha).is_fair

\* The levels alpha in (0,1) handed to the core.
ProperAlphas == {a \in AlphaInputs : a \in 1..999}

\* C11: a failure of the p-value routine is caught inside chi_square_test and
\* the resulting verdict is never a definite "fair": when the except branch has
\* run, the verdict derived from the returned p-value is not True.
C11_FailureNeverFair ==
    (/\ c_op = "returned" /\ c_args.fn = "chi_square_test"
     /\ \E i \in DOMAIN c_calls : c_calls[i] = "except") =>
        /\ c_ret.raised = ""
        /\ \A alpha \in ProperAlphas : VerdictOf(c_ret.value, alpha) # Some(TRUE)

\* Sum of the squares of the entries s[1..n].
RECURSIVE SumSqUpTo(_, _)
SumSqUpTo(s, n) == IF n = 0 THEN 0 ELSE s[n] * s[n] + SumSqUpTo(s, n - 1)

\* A call chi_square_test(observed) under the default uniform null hypothesis
\* that has returned, on F >= minF categories with a positive total.
ChiSquareReturned(minF) ==
    /\ ReturnedFrom("chi_square_test")
    /\ c_args.expected_probs = None
    /\ Len(c_args.observed) >= minF
    /\ SumUpTo(c_args.observed, Len(c_args.observed)) > 0

IsUniform(observed) == \A i \in DOMAIN observed : observed[i] = observed[1]

\* C12: for every count vector over F >= 2 categories with positive total,
\* chi_square_test returns a statistic >= 0 and a p_value in [0,1].
C12_StatisticAndPValueRange ==
    ChiSquareReturned(2) =>
        /\ c_ret.value[1][2] > 0
        /\ c_ret.value[1][1] >= 0
        /\ c_ret.value[2] \in 0..1000

\* C12 happens: a non-uniform vector gave a positive statistic and a p-value
\* strictly between 0 and 1.
C12_Witness ==
    /\ ChiSquareReturned(2)
    /\ c_ret.value[1][1] > 0
    /\ c_ret.value[2] \in 1..999

\* C13: exactly uniform counts with total > 0 give statistic 0 and p_value
\* 1.0, and the verdict is fair for every alpha in (0,1); through
\* get_dice_fairness a uniform valid sample is reported fair.
C13_UniformIsFair ==
    /\ (ChiSquareReturned(2) /\ IsUniform(c_args.observed)) =>
          /\ c_ret.value = <<(<<0, 1>>), 1000>>
          /\ \A alpha \in 1..999 : VerdictOf(c_ret.value, alpha) = Some(TRUE)
    /\ (/\ ReturnedFrom("get_dice_fairness")
        /\ c_args.num_faces >= 2
        /\ c_args.alpha \in 1..999
        /\ OutcomesArg(c_args.rolls) > 0
        /\ \A v \in 1..c_args.num_faces : OccArg(c_args.rolls, v) = OccArg(c_args.rolls, 1)
        /\ c_ret.value.sample_validity.valid) =>
          /\ c_ret.value.fairness_test.chi2_stat = Some(<<0, 1>>)
          /\ c_ret.value.fairness_test.p_value = Some(1000)
          /\ c_ret.value.fairness_test.is_fair = Some(TRUE)

\* C13 happens: get_dice_fairness has judged a valid, exactly uniform sample.
C13_Witness ==
    /\ ReturnedFrom("get_dice_fairness")
    /\ c_args.num_faces >= 2
    /\ c_args.alpha \in 1..999
    /\ OccArg(c_args.rolls, 1) >= 5
    /\ \A v \in 1..c_args.num_faces : OccArg(c_args.rolls, v) = OccArg(c_args.rolls, 1)
    /\ c_ret.value.sample_validity.valid
    /\ c_ret.value.fairness_test.is_fair = Some(TRUE)

\* All the outcomes handed to get_dice_fairness show the one face v.
AllOnFace(rolls, v) == OutcomesArg(rolls) > 0 /\ OccArg(rolls, v) = OutcomesArg(rolls)

\* C14: under the uniform null hypothesis the statistic is the sum over the F
\* categories of (observed - total/F)^2 / (total/F), which is
\* (F * sum(observed^2) - total^2) / total; a valid sample with every outcome
\* on one face is not fair at alpha 0.05.
C14_StatisticFormula ==
    /\ ChiSquareReturned(1) =>
          LET F == Len(c_args.observed)
              total == SumUpTo(c_args.observed, F)
          IN  c_ret.value[1] = Rat(F * SumSqUpTo(c_args.observed, F) - total * total, total)
    /\ (/\ ReturnedFrom("get_dice_fairness")
        /\ c_args.num_faces >= 2
        /\ c_args.alpha = 50
        /\ \E v \in 1..c_args.num_faces : AllOnFace(c_args.rolls, v)
        /\ c_ret.value.sample_validity.valid) =>
          LET F == c_args.num_faces
              total == OutcomesArg(c_args.rolls)
          IN  /\ c_ret.value.fairness_test.chi2_stat = Some(Rat(total * (F - 1), 1))
              /\ c_ret.value.fairness_test.is_fair = Some(FALSE)

\* C14 happens: a valid sample with every outcome on one face has been judged.
C14_Witness ==
    /\ ReturnedFrom("get_dice_fairness")
    /\ c_args.num_faces >= 2
    /\ c_args.alpha = 50
    /\ \E v \in 1..c_args.num_faces : AllOnFace(c_args.rolls, v)
    /\ c_ret.value.sample_validity.valid
    /\ c_ret.value.fairness_test.is_fair = Some(FALSE)

\* C15: on a count vector whose total is 0 chi_square_test returns statistic 0
\* and p_value 1.0 without reaching stats.chisquare (no division by the zero
\* expected counts).
C15_ZeroTotal ==
    (/\ c_op = "returned" /\ c_args.fn = "chi_square_test"
     /\ SumUpTo(c_args.observed, Len(c_args.observed)) = 0) =>
        /\ c_ret = Returned(<<(<<0, 1>>), 1000>>)
        /\ c_calls = <<>>

\* C15 happens: chi_square_test has returned on counts that are all zero.
C15_Witness ==
    /\ ReturnedFrom("chi_square_test")
    /\ Len(c_args.observed) >= 2
    /\ \A i \in DOMAIN c_args.observed : c_args.observed[i] = 0
    /\ c_ret.value[2] = 1000

\* All the rolls have the arity N.
SameArity(rolls, N) == \A i \in DOMAIN rolls : Len(rolls[i]) = N

\* C16: per-position counts are produced only when all rolls share one arity
\* N: then positions 0..N-1 each map to the face counts at that position and
\* each position's counts sum to the number of rolls; for a history of mixed
\* arity none are produced, and the overall counts still take every value of
\* every roll as it is.
C16_PerPositionCounts ==
    ReturnedFrom("calculate_multi_statistics") =>
        LET rolls == c_args.rolls
            total == c_ret.value[2]
            position_stats == c_ret.value[4]
        IN  /\ total = Outcomes(rolls)
            /\ IF rolls # <<>> /\ SameArity(rolls, Len(rolls[1]))
               THEN /\ DOMAIN position_stats = 0..(Len(rolls[1]) - 1)
                    /\ \A pos \in DOMAIN position_stats :
                          /\ SumValues(position_stats[pos]) = Len(rolls)
                          /\ \A v \in 1..(MaxVal + 1) :
                                DictGet(position_stats[pos], v, 0)
                                    = Cardinality({i \in DOMAIN rolls : rolls[i][pos + 1] = v})
               ELSE DOMAIN position_stats = {}

\* C16 happens: a history whose rolls differ in arity has been aggregated.
C16_Witness ==
    /\ ReturnedFrom("calculate_multi_statistics")
    /\ Len(c_args.rolls) >= 2
    /\ Len(c_args.rolls[1]) >= 2
    /\ ~SameArity(c_args.rolls, Len(c_args.rolls[1]))
    /\ DOMAIN c_ret.value[4] = {}
    /\ c_ret.value[2] = Outcomes(c_args.rolls)

\* C17: for a non-empty multi-die history the sum distribution maps every
\* integer s of [min observed sum, max observed sum] to the number of rolls
\* whose values sum to s, has no entry outside that range, and its counts
\* total the number of rolls.
C17_SumDistribution ==
    ReturnedFrom("sum_distribution") =>
        LET rolls == c_args.rolls
            dist == c_ret.value
            sums == {SumUpTo(rolls[i], Len(rolls[i])) : i \in DOMAIN rolls}
        IN  /\ \A sm \in DOMAIN dist : \E lo \in sums, hi \in sums : lo <= sm /\ sm <= hi
            /\ \A lo \in sums, hi \in sums : \A sm \in lo..hi : sm \in DOMAIN dist
            /\ \A sm \in DOMAIN dist :
                  dist[sm] = Cardinality({i \in DOMAIN rolls : SumUpTo(rolls[i], Len(rolls[i])) = sm})
            /\ SumValues(dist) = Len(rolls)

\* C17 happens: a distribution over several sums has been computed for rolls
\* of two dice whose smallest observed sum is above the number of dice.
C17_Witness ==
    /\ ReturnedFrom("sum_distribution")
    /\ SameArity(c_args.rolls, 2)
    /\ Cardinality(DOMAIN c_ret.value) >= 2
    /\ \A sm \in DOMAIN c_ret.value : sm > 2

\* The rearrangements of s an order-independent result is compared on: every
\* permutation of a short sequence; for a longer one the exchanges of two
\* neighbours (which generate every permutation) and the reversal.
Rearrangements(s) ==
    IF Len(s) <= 4
    THEN {[i \in DOMAIN s |-> s[f[i]]] : f \in Permutations(DOMAIN s)}
    ELSE {[s EXCEPT ![i] = s[i + 1], ![i + 1] = s[i]] : i \in 1..(Len(s) - 1)}
         \cup {[i \in DOMAIN s |-> s[Len(s) + 1 - i]]}

\* C18: aggregation is order-independent: on every rearrangement of the roll
\* sequence the face counts, percentages, sample validity (and verdict),
\* per-position counts and sum distribution are the ones of the sequence.
C18_OrderIndependent ==
    /\ ReturnedFrom("get_dice_fairness") =>
          IF c_args.rolls.lists # <<>>
          THEN \A q \in Rearrangements(c_args.rolls.lists) :
                   get_dice_fairness(ListRolls(q), c_args.num_faces, c_args.alpha) = c_ret.value
          ELSE \A q \in Rearrangements(c_args.rolls.ints) :
                   get_dice_fairness(IntRolls(q), c_args.num_faces, c_args.alpha) = c_ret.value
    /\ ReturnedFrom("calculate_statistics") =>
          \A q \in Rearrangements(c_args.rolls) : calculate_statistics(q) = c_ret.value
    /\ ReturnedFrom("calculate_multi_statistics") =>
          \A q \in Rearrangements(c_args.rolls) :
              calculate_multi_statistics(q, c_args.dice_faces) = c_ret.value
    /\ ReturnedFrom("sum_distribution") =>
          \A q \in Rearrangements(c_args.rolls) : sum_distribution(q) = c_ret.value

\* C18 happens: rolls of two dice that are not all alike, with per-position
\* counts, have been aggregated.
C18_Witness ==
    /\ ReturnedFrom("calculate_multi_statistics")
    /\ Len(c_args.rolls) >= 3
    /\ SameArity(c_args.rolls, 2)
    /\ \E q \in Rearrangements(c_args.rolls) : q # c_args.rolls
    /\ DOMAIN c_ret.value[4] = {0, 1}

\* C19: simulate_rolls(0, N, F) returns an empty sequence, and for R >= 0,
\* N >= 1, F >= 2 simulate_rolls(R, N, F) returns exactly R rolls of exactly N
\* values, each an integer in [1, F], whatever the random source gives
\* (DiceSimulator.simulate_rolls and DiceManager.simulate_rolls alike).
C19_SimulatedRolls ==
    (c_op = "returned" /\ c_args.fn \in {"simulate_rolls", "DiceManager.simulate_rolls"}) =>
        /\ c_args.num_rolls = 0 => c_ret = Returned(<<>>)
        /\ (c_args.num_dice >= 1 /\ c_args.faces >= 2) =>
              /\ c_ret.raised = ""
              /\ Len(c_ret.value) = c_args.num_rolls
              /\ \A i \in DOMAIN c_ret.value :
                    /\ Len(c_ret.value[i]) = c_args.num_dice
                    /\ \A j \in DOMAIN c_ret.value[i] : c_ret.value[i][j] \in 1..c_args.faces

\* C19 happens: several rolls of several dice have been simulated, the largest
\* face among them.
C19_Witness ==
    /\ ReturnedFrom("simulate_rolls")
    /\ c_args.num_rolls >= 2 /\ c_args.num_dice >= 2 /\ c_args.faces >= 2
    /\ Len(c_ret.value) = c_args.num_rolls
    /\ c_ret.value[1][1] = c_args.faces

\* C20: for R, N, F with R*N >= 5*F the analysis of the rolls simulate_rolls
\* returns reports sample_validity.valid = True and sample_validity.total =
\* R*N, whatever the random source gives.
C20_SimulationIsValidSample ==
    (/\ c_op = "returned" /\ c_args.fn = "simulation_fairness_stats"
     /\ c_args.simulation[1] * c_args.simulation[2] >= 5 * c_args.simulation[3]) =>
        /\ c_ret.raised = ""
        /\ c_ret.value.sample_validity.valid = TRUE
        /\ c_ret.value.sample_validity.total = c_args.simulation[1] * c_args.simulation[2]

\* C20 happens: a simulation of exactly 5*F outcomes, not all on one face, has
\* been analysed.
C20_Witness ==
    /\ ReturnedFrom("simulation_fairness_stats")
    /\ c_args.simulation[1] * c_args.simulation[2] = 5 * c_args.simulation[3]
    /\ c_args.simulation[2] >= 2
    /\ c_calls[1][1] # c_calls[1][2]
    /\ c_ret.value.sample_validity.valid

-----------------------------------------------------------------------------
(* Frame of the core calls (checked under CoreSpec) *)

\* The operations of the statistics core: aggregation, sample-validity check,
\* chi-square test, fairness report, simulation.
CoreOperations ==
    {"get_dice_fairness", "check_sample_size_validity", "interpret_chi_square_result",
     "calculate_statistics", "calculate_multi_statistics", "chi_square_test",
     "simulate_rolls", "DiceManager.simulate_rolls", "sum_distribution",
     "simulation_fairness_stats"}

\* C21: no core operation modifies what surrounds it: a call that returns
\* leaves the arguments it was given (the roll sequence among them), every
\* roll-log file, and the DiceManager's configuration and partial roll as
\* they were; in particular simulate_rolls writes no file.
C21_CoreCallsChangeNothing ==
    [][c_op = "idle" /\ c_op' = "returned" /\ c_args.fn \in CoreOperations =>
          /\ c_args' = c_args
          /\ files' = files
          /\ dm' = dm]_vars

\* C21 happens: DiceManager.simulate_rolls has returned rolls while the
\* manager holds a partial roll and a roll-log file exists.
C21_Witness ==
    /\ c_op = "returned"
    /\ c_args.fn = "DiceManager.simulate_rolls"
    /\ c_ret.raised = "" /\ c_ret.value # <<>>
    /\ dm.current_roll # <<>>
    /\ DOMAIN files # {}

-----------------------------------------------------------------------------
(* The roll-log files (checked under CoreSpec) *)

\* C23: roll-log round trip: starting from an absent log, after
\* log_single_roll of r1..rk in order read_single_rolls returns exactly
\* [r1..rk], and after log_multiple_rolls of a sequence of rolls
\* read_multiple_rolls returns exactly those rolls in that order; the file
\* holds one line per roll.
C23_LogRoundTrip ==
    /\ c_op = "returned" /\ c_args.fn = "log_single_roll" =>
          /\ c_ret = Returned(c_args.rolls)
          /\ Len(LinesAt(files, NewLogPath(1))) = Len(c_args.rolls)
    /\ c_op = "returned" /\ c_args.fn = "log_multiple_rolls" =>
          /\ c_ret = Returned(c_args.rolls)
          /\ Len(LinesAt(files, NewLogPath(2))) = Len(c_args.rolls)

\* C23 happens: a single-die log of at least three rolls with both values was
\* written and read back.
C23_Witness ==
    /\ c_op = "returned" /\ c_args.fn = "log_single_roll"
    /\ Len(c_args.rolls) >= 3
    /\ \E i, j \in DOMAIN c_args.rolls : c_args.rolls[i] # c_args.rolls[j]
    /\ NewLogPath(1) \in DOMAIN files

\* C30: in every report returned by get_dice_fairness, for any roll sequence
\* and face count, sample_validity.total equals total_rolls and equals the sum
\* of the returned face_counts: the sample-size gate is decided on the number
\* of outcomes the report states. Stated of the report a core call returns
\* and of the report the roller tab holds from its last show_graph.
GateCountsAllOutcomes(r) ==
    /\ r.sample_validity.total = r.total_rolls
    /\ r.total_rolls = SumValues(r.face_counts)

C30_GateCountsAllOutcomes ==
    /\ ReturnedFrom("get_dice_fairness") => GateCountsAllOutcomes(c_ret.value)
    /\ last_fairness_stats # None => GateCountsAllOutcomes(last_fairness_stats[1])

====
